---------------------------- MODULE Spec2Model ----------------------------
(***************************************************************************)
(* A model of the LangViz computational kernel (services/langviz-rs):      *)
(* the disjoint-set forest and threshold clustering (cluster.rs), graph    *)
(* construction, connected components, community detection, PageRank,      *)
(* shortest paths and statistics (graph.rs), the sparse similarity matrix  *)
(* and its queries (sparse.rs), and the phonetic engine: Levenshtein       *)
(* similarity, LCS ratio, DTW alignment, batch distances, the pairwise     *)
(* similarity matrix and sound correspondences (phonetic.rs, types.rs).    *)
(* The Python-facing PyAlignment (lib.rs) and the standalone phonetic-rs   *)
(* crate's phonetic_distance are modelled beside the functions they mirror.*)
(*                                                                         *)
(* Each subsystem is a library of calls without shared state, so each has  *)
(* its own specification over its own group of variables; the variables of *)
(* the other groups stay at their idle values.                             *)
(***************************************************************************)
EXTENDS Integers, Sequences, FiniteSets, TLC

VARIABLES
    \* cluster.rs, UnionFind: the two arrays, the value the last call
    \* returned, and (history) the pairs of distinct elements passed to union
    \* so far (union(x, x) relates x to itself, as reflexivity already does)
    parent, rank, ret, unions,
    \* One run of the graph and clustering entry points on one input: the
    \* edge list and threshold passed in, the CognateGraph built from them,
    \* the Vec<CognateSet> find_cognate_sets returned, the Vec<Vec<String>>
    \* threshold_clustering_with_ids returned, and the position in the run
    edges, threshold, graph, sets, clusters, gpc,
    \* One call dtw_align(ipa_a, ipa_b): the two arguments as grapheme
    \* sequences, the cost table, the backtrack position (the code's i, j), the vectors the
    \* backtrack pushes to, the Alignment returned, and the position in the call
    ipa_a, ipa_b, cost, cur_i, cur_j, operations, aligned_a, aligned_b, alignment, apc,
    \* What Alignment::extract_correspondences and, through PyAlignment,
    \* PyAlignment::correspondences returned for the alignment of that call
    a_rules, py_rules,
    \* Calls of phonetic_distance and lcs_ratio on two strings str_x, str_y
    \* in either argument order: what each call made so far returned, keyed
    \* by its argument pair
    str_x, str_y, pd_ret, lcs_ret,
    \* One call compute_similarity_matrix(ipa_strings): the argument, the
    \* pairs vector, the results of the parallel map (the code's similarities,
    \* slot by slot as the workers finish), the matrix, and the position
    ipa_strings, pairs, sims, matrix, mpc,
    \* One run of the id-keyed queries: the edge list and threshold, the
    \* SparseSimilarityMatrix and the CognateGraph built from them, the last
    \* query made and what it returned, and the position in the run
    q_edges, q_threshold, q_matrix, q_graph, q_call, q_ret, qpc,
    \* One run of from_edges followed by stats or compute_pagerank: the edge
    \* list and threshold, the CognateGraph, the damping and iterations
    \* arguments, the turns of the loop made, the ranks vector, the GraphStats
    \* and the rank map returned, and the position in the run
    r_edges, r_threshold, r_graph, r_damping, r_iterations, r_turn, r_ranks,
    r_stats, r_ret, rpc,
    \* One run of from_edges followed by detect_communities: the edge list and
    \* threshold, the CognateGraph, the resolution argument, the communities
    \* vector, the improved flag, the iteration counter, the node the pass
    \* visits next, (history) the modularity of the start partition and of
    \* the partition after each committed move, the communities returned,
    \* and the position in the run
    c_edges, c_threshold, c_graph, c_resolution, c_communities, c_improved,
    c_iteration, c_node, c_trace, c_ret, cpc,
    \* One call batch_phonetic_distance(pairs): the argument, the results of
    \* the tasks that have finished (by the position of their pair),
    \* (history) the positions in the order their tasks finished, the vector
    \* returned, and the position in the call
    b_pairs, b_slots, b_finished, b_ret, bpc,
    \* One call extract_sound_correspondences(alignments): the argument, the
    \* correspondence_counts map, the vector collected from it, the vector
    \* returned, and the position in the call
    x_alignments, x_counts, x_vec, x_ret, xpc,
    \* One comparison of the two crates on two strings: the arguments as
    \* grapheme sequences, what phonetic_distance of langviz-rs returned and
    \* what phonetic_distance of the standalone phonetic-rs crate returned
    p_ipa_a, p_ipa_b, p_langviz, p_standalone

ufVars == <<parent, rank, ret, unions>>

graphVars == <<edges, threshold, graph, sets, clusters, gpc>>

alignVars ==
    <<ipa_a, ipa_b, cost, cur_i, cur_j, operations, aligned_a, aligned_b, alignment, apc, a_rules, py_rules>>

distVars == <<str_x, str_y, pd_ret, lcs_ret>>

matrixVars == <<ipa_strings, pairs, sims, matrix, mpc>>

queryVars == <<q_edges, q_threshold, q_matrix, q_graph, q_call, q_ret, qpc>>

rankVars ==
    <<r_edges, r_threshold, r_graph, r_damping, r_iterations, r_turn, r_ranks,
      r_stats, r_ret, rpc>>

commVars ==
    <<c_edges, c_threshold, c_graph, c_resolution, c_communities, c_improved,
      c_iteration, c_node, c_trace, c_ret, cpc>>

batchVars == <<b_pairs, b_slots, b_finished, b_ret, bpc>>

corrVars == <<x_alignments, x_counts, x_vec, x_ret, xpc>>

crateVars == <<p_ipa_a, p_ipa_b, p_langviz, p_standalone>>

vars == <<ufVars, graphVars, alignVars, distVars, matrixVars, queryVars, rankVars, commVars, batchVars, corrVars, crateVars>>

\* What a step of one group leaves alone: the variables of the other groups
notUF == <<graphVars, alignVars, distVars, matrixVars, queryVars, rankVars, commVars, batchVars, corrVars, crateVars>>

notGraph == <<ufVars, alignVars, distVars, matrixVars, queryVars, rankVars, commVars, batchVars, corrVars, crateVars>>

notAlign == <<ufVars, graphVars, distVars, matrixVars, queryVars, rankVars, commVars, batchVars, corrVars, crateVars>>

notDist == <<ufVars, graphVars, alignVars, matrixVars, queryVars, rankVars, commVars, batchVars, corrVars, crateVars>>

notMatrix == <<ufVars, graphVars, alignVars, distVars, queryVars, rankVars, commVars, batchVars, corrVars, crateVars>>

notQuery == <<ufVars, graphVars, alignVars, distVars, matrixVars, rankVars, commVars, batchVars, corrVars, crateVars>>

notRank == <<ufVars, graphVars, alignVars, distVars, matrixVars, queryVars, commVars, batchVars, corrVars, crateVars>>

notComm == <<ufVars, graphVars, alignVars, distVars, matrixVars, queryVars, rankVars, batchVars, corrVars, crateVars>>

notBatch == <<ufVars, graphVars, alignVars, distVars, matrixVars, queryVars, rankVars, commVars, corrVars, crateVars>>

notCorr == <<ufVars, graphVars, alignVars, distVars, matrixVars, queryVars, rankVars, commVars, batchVars, crateVars>>

notCrate == <<ufVars, graphVars, alignVars, distVars, matrixVars, queryVars, rankVars, commVars, batchVars, corrVars>>

-----------------------------------------------------------------------------
(* General helpers *)

Range(s) == {s[i] : i \in 1..Len(s)}

Max2(x, y) == IF x >= y THEN x ELSE y

Min2(x, y) == IF x <= y THEN x ELSE y

\* All sequences over S of length at most n
SeqsUpTo(S, n) == UNION {[1..k -> S] : k \in 0..n}

\* A reverse that leaves the vector in the order it was pushed
ReverseForgotten(s) == s

\* Vec::reverse
Reverse(s) == [i \in 1..Len(s) |-> s[Len(s) + 1 - i]]

\* The orders in which the elements of the finite set S can be listed: the
\* orders a std HashMap or HashSet may iterate in
Orders(S) == {f \in [1..Cardinality(S) -> S] : Range(f) = S}

-----------------------------------------------------------------------------
(* cluster.rs: UnionFind *)

\* Number of elements of the forest driven by SpecUF
NItems == 4

Items == 0..(NItems - 1)

\* UnionFind::new(n)
UFNew(n) == [parent |-> [i \in 0..(n - 1) |-> i], rank |-> [i \in 0..(n - 1) |-> 0]]

\* A find that returns the parent of x instead of the root of x
FindNoRecursion(uf, x) == [uf |-> uf, root |-> uf.parent[x]]

\* UnionFind::find(x), with path compression: the forest after the call and
\* the value returned
RECURSIVE Find(_, _)
Find(uf, x) ==
    IF uf.parent[x] # x
    THEN LET r == Find(uf, uf.parent[x])
             uf2 == [r.uf EXCEPT !.parent[x] = r.root]
         IN  [uf |-> uf2, root |-> uf2.parent[x]]
    ELSE [uf |-> uf, root |-> uf.parent[x]]

\* A union whose equal-rank case increments the rank but forgets the link
LinkEqualRankUnlinked(uf, root_x, root_y) ==
    IF uf.rank[root_x] < uf.rank[root_y]
    THEN [uf EXCEPT !.parent[root_x] = root_y]
    ELSE IF uf.rank[root_x] > uf.rank[root_y]
    THEN [uf EXCEPT !.parent[root_y] = root_x]
    ELSE [uf EXCEPT !.rank[root_x] = @ + 1]

\* UnionFind::union, the match on the two ranks of distinct roots
Link(uf, root_x, root_y) ==
    IF uf.rank[root_x] < uf.rank[root_y]
    THEN [uf EXCEPT !.parent[root_x] = root_y]
    ELSE IF uf.rank[root_x] > uf.rank[root_y]
    THEN [uf EXCEPT !.parent[root_y] = root_x]
    ELSE [uf EXCEPT !.parent[root_y] = root_x, !.rank[root_x] = @ + 1]

\* UnionFind::union(x, y)
Union(uf, x, y) ==
    LET fx == Find(uf, x)
        fy == Find(fx.uf, y)
    IN  IF fx.root = fy.root THEN fy.uf ELSE Link(fy.uf, fx.root, fy.root)

-----------------------------------------------------------------------------
(* cluster.rs: threshold clustering *)

\* The entry identifiers of the inputs, in the lexicographic order that
\* String's Ord gives them
IdOrder == <<"a", "b", "c">>

Ids == Range(IdOrder)

\* Weights and thresholds are f64 values; only their order is used, and the
\* model takes them from a few integers
Weights == {1, 2}

Thresholds == {2}

\* The longest edge list given to the graph and clustering entry points
MaxEdges == 3

\* ids.sort() on the ids collected in the HashSet S
SortIds(S) == SelectSeq(IdOrder, LAMBDA id : id \in S)

\* The position (from 0) of id in the sorted vector ids: the id_to_idx map
IdToIdx(ids, id) == (CHOOSE k \in 1..Len(ids) : ids[k] = id) - 1

\* threshold_clustering, the loop over the similarity triples
RECURSIVE UnionAll(_, _, _)
UnionAll(uf, similarities, t) ==
    IF similarities = <<>> THEN uf
    ELSE LET e == Head(similarities)
         IN  UnionAll(IF e[3] >= t THEN Union(uf, e[1], e[2]) ELSE uf,
                      Tail(similarities), t)

\* UnionFind::components, the loop for i in 0..n: the forest after the finds
\* and the map root -> members, each pushed in index order
RECURSIVE GroupByRoot(_, _, _, _)
GroupByRoot(uf, i, n, groups) ==
    IF i >= n THEN groups
    ELSE LET f == Find(uf, i)
             old == IF f.root \in DOMAIN groups THEN groups[f.root] ELSE <<>>
         IN  GroupByRoot(f.uf, i + 1, n,
                 [r \in DOMAIN groups \cup {f.root} |->
                     IF r = f.root THEN Append(old, i) ELSE groups[r]])

\* UnionFind::components: groups.into_values() in the iteration order `order`
\* of the map's keys
Components(uf, n, order) ==
    LET groups == GroupByRoot(uf, 0, n, <<>>)
    IN  [k \in 1..Len(order) |-> groups[order[k]]]

\* The keys of the map that UnionFind::components builds
ComponentRoots(uf, n) == DOMAIN GroupByRoot(uf, 0, n, <<>>)

\* threshold_clustering(similarities, n_items, threshold)
ThresholdClustering(similarities, n_items, t, order) ==
    Components(UnionAll(UFNew(n_items), similarities, t), n_items, order)

\* The id set of threshold_clustering_with_ids: both ends of every triple
IdSet(similarities) ==
    {similarities[k][1] : k \in 1..Len(similarities)}
        \cup {similarities[k][2] : k \in 1..Len(similarities)}

\* An id set that holds only the ends of the triples at or above the threshold
IdSetAboveThreshold(similarities, t) ==
    {similarities[k][1] : k \in {j \in 1..Len(similarities) : similarities[j][3] >= t}}
        \cup {similarities[k][2] : k \in {j \in 1..Len(similarities) : similarities[j][3] >= t}}

\* The ids that threshold_clustering_with_ids indexes
ClusteredIds(similarities, t) == IdSet(similarities)

\* threshold_clustering_with_ids, the triples converted to indices; a triple
\* with an end the map does not hold is dropped (filter_map)
IndexedSimilarities(similarities, ids) ==
    LET known == SelectSeq(similarities,
                     LAMBDA e : e[1] \in Range(ids) /\ e[2] \in Range(ids))
    IN  [k \in 1..Len(known) |->
            <<IdToIdx(ids, known[k][1]), IdToIdx(ids, known[k][2]), known[k][3]>>]

\* The roots that key the component map inside threshold_clustering_with_ids
ClusterRoots(similarities, t) ==
    LET ids == SortIds(ClusteredIds(similarities, t))
    IN  ComponentRoots(UnionAll(UFNew(Len(ids)),
                           IndexedSimilarities(similarities, ids), t), Len(ids))

\* threshold_clustering_with_ids(similarities, threshold)
ThresholdClusteringWithIds(similarities, t, order) ==
    LET ids == SortIds(ClusteredIds(similarities, t))
        cl == ThresholdClustering(IndexedSimilarities(similarities, ids),
                                  Len(ids), t, order)
    IN  [k \in 1..Len(cl) |-> [m \in 1..Len(cl[k]) |-> ids[cl[k][m] + 1]]]

-----------------------------------------------------------------------------
(* graph.rs: CognateGraph *)

\* CognateGraph::new(): graph holds the node weights (labels) by NodeIndex
\* (from 0) and the edges in insertion order; node_map is label -> NodeIndex
NewGraph == [nodes |-> <<>>, edges |-> <<>>, node_map |-> <<>>]

\* A get_or_create_node that adds a node on every call
GetOrCreateNodeAlways(g, id) ==
    LET idx == Len(g.nodes)
    IN  [g |-> [g EXCEPT !.nodes = Append(@, id),
                         !.node_map = [k \in DOMAIN @ \cup {id} |->
                                          IF k = id THEN idx ELSE @[k]]],
         idx |-> idx]

\* CognateGraph::get_or_create_node(id): the graph after the call and the
\* index returned
GetOrCreateNode(g, id) ==
    IF id \in DOMAIN g.node_map
    THEN [g |-> g, idx |-> g.node_map[id]]
    ELSE LET idx == Len(g.nodes)
         IN  [g |-> [g EXCEPT !.nodes = Append(@, id),
                              !.node_map = (id :> idx) @@ @],
              idx |-> idx]

\* CognateGraph::add_edge(source, target, weight)
AddEdge(g, source, target, weight) ==
    LET s == GetOrCreateNode(g, source)
        t == GetOrCreateNode(s.g, target)
    IN  [t.g EXCEPT !.edges = Append(@, <<s.idx, t.idx, weight>>)]

\* A filter that keeps the edges strictly above the threshold
FilterStrictlyAbove(es, t) == SelectSeq(es, LAMBDA e : e[3] > t)

\* CognateGraph::from_edges, the threshold filter (an order-preserving
\* parallel filter and collect)
FilterEdges(es, t) == SelectSeq(es, LAMBDA e : e[3] >= t)

\* CognateGraph::from_edges, the loop adding the filtered edges
RECURSIVE AddEdges(_, _)
AddEdges(g, es) ==
    IF es = <<>> THEN g
    ELSE AddEdges(AddEdge(g, Head(es)[1], Head(es)[2], Head(es)[3]), Tail(es))

\* CognateGraph::from_edges(edges, threshold)
FromEdges(es, t) == AddEdges(NewGraph, FilterEdges(es, t))

NodeIndices(g) == 0..(Len(g.nodes) - 1)

\* self.graph.neighbors(node) of the undirected petgraph Graph: the targets of
\* the edges leaving node, newest edge first, then the sources of the edges
\* entering it, newest first, a self-loop reported once
Neighbors(g, node) ==
    LET rev == Reverse(g.edges)
        out == SelectSeq(rev, LAMBDA e : e[1] = node)
        inc == SelectSeq(rev, LAMBDA e : e[2] = node /\ e[1] # node)
    IN  [k \in 1..Len(out) |-> out[k][2]] \o [k \in 1..Len(inc) |-> inc[k][1]]

\* mark_component, the for loop pushing the unassigned neighbours
PushUnassigned(stack, nbrs, component_map) ==
    stack \o SelectSeq(nbrs, LAMBDA n : component_map[n + 1] = 0)

\* A marker that assigns the start node and never walks to its neighbours
RECURSIVE MarkStartOnly(_, _, _, _)
MarkStartOnly(g, stack, component_id, component_map) ==
    IF stack = <<>> THEN component_map
    ELSE [component_map EXCEPT ![stack[Len(stack)] + 1] = component_id]

\* CognateGraph::mark_component from a given stack (iterative DFS);
\* component_map is indexed by NodeIndex + 1 and 0 means unassigned
RECURSIVE MarkComponent(_, _, _, _)
MarkComponent(g, stack, component_id, component_map) ==
    IF stack = <<>> THEN component_map
    ELSE LET node == stack[Len(stack)]
             rest == SubSeq(stack, 1, Len(stack) - 1)
         IN  IF component_map[node + 1] # 0
             THEN MarkComponent(g, rest, component_id, component_map)
             ELSE LET cm == [component_map EXCEPT ![node + 1] = component_id]
                  IN  MarkComponent(g, PushUnassigned(rest, Neighbors(g, node), cm),
                                    component_id, cm)

\* CognateGraph::mark_component from a given stack: the nodes in the order in
\* which the search assigns them (the `visited` sequence grows at the
\* assignment component_map[node.index()] = component_id)
RECURSIVE MarkOrder(_, _, _, _)
MarkOrder(g, stack, component_map, visited) ==
    IF stack = <<>> THEN visited
    ELSE LET node == stack[Len(stack)]
             rest == SubSeq(stack, 1, Len(stack) - 1)
         IN  IF component_map[node + 1] # 0
             THEN MarkOrder(g, rest, component_map, visited)
             ELSE LET cm == [component_map EXCEPT ![node + 1] = 1]
                  IN  MarkOrder(g, PushUnassigned(rest, Neighbors(g, node), cm),
                                cm, Append(visited, node))

\* find_cognate_sets, the loop over node_indices() that numbers the
\* components from 1: the component map and the last number used
RECURSIVE MarkAll(_, _, _, _)
MarkAll(g, node_idx, current_component, component_map) ==
    IF node_idx >= Len(g.nodes) THEN component_map
    ELSE IF component_map[node_idx + 1] = 0
    THEN MarkAll(g, node_idx + 1, current_component + 1,
                 MarkComponent(g, <<node_idx>>, current_component + 1, component_map))
    ELSE MarkAll(g, node_idx + 1, current_component, component_map)

ComponentMap(g) == MarkAll(g, 0, 0, [k \in 1..Len(g.nodes) |-> 0])

\* find_cognate_sets, the grouping loop: component id -> labels of its nodes,
\* pushed in node-index order
GroupByComponent(g) ==
    LET cm == ComponentMap(g)
    IN  [c \in Range(cm) |->
            LET idxs == SelectSeq([k \in 1..Len(g.nodes) |-> k], LAMBDA k : cm[k] = c)
            IN  [m \in 1..Len(idxs) |-> g.nodes[idxs[m]]]]

\* CognateSet::new(id, members)
NewCognateSet(id, members) == [id |-> id, members |-> members, size |-> Len(members)]

\* CognateGraph::find_cognate_sets: the components map turned into CognateSet
\* values in the iteration order `order` of the map's keys
FindCognateSets(g, order) ==
    LET components == GroupByComponent(g)
    IN  [k \in 1..Len(order) |-> NewCognateSet(order[k], components[order[k]])]

-----------------------------------------------------------------------------
(* The specification of one run of the graph and clustering entry points *)

\* The edges as (source id, target id, weight) triples
EdgeInputs == SeqsUpTo(Ids \X Ids \X Weights, MaxEdges)

GraphIdle ==
    /\ edges = <<>>
    /\ threshold = 0
    /\ graph = NewGraph
    /\ sets = <<>>
    /\ clusters = <<>>
    /\ gpc = "idle"

GraphInit ==
    /\ edges \in EdgeInputs
    /\ threshold \in Thresholds
    /\ graph = NewGraph
    /\ sets = <<>>
    /\ clusters = <<>>
    /\ gpc = "start"

\* CognateGraph::from_edges(edges, threshold)
BuildGraph ==
    /\ gpc = "start"
    /\ graph' = FromEdges(edges, threshold)
    /\ gpc' = "built"
    /\ UNCHANGED <<edges, threshold, sets, clusters, notGraph>>

\* graph.find_cognate_sets()
CallFindCognateSets ==
    /\ gpc = "built"
    /\ \E order \in Orders(DOMAIN GroupByComponent(graph)) :
           sets' = FindCognateSets(graph, order)
    /\ gpc' = "sets"
    /\ UNCHANGED <<edges, threshold, graph, clusters, notGraph>>

\* threshold_clustering_with_ids(edges, threshold) on the same triples
CallThresholdClustering ==
    /\ gpc = "sets"
    /\ \E order \in Orders(ClusterRoots(edges, threshold)) :
           clusters' = ThresholdClusteringWithIds(edges, threshold, order)
    /\ gpc' = "done"
    /\ UNCHANGED <<edges, threshold, graph, sets, notGraph>>

GraphNext == BuildGraph \/ CallFindCognateSets \/ CallThresholdClustering

-----------------------------------------------------------------------------
(* phonetic.rs: DTW alignment *)

\* The grapheme clusters the input strings are made of. A string is modelled
\* by the sequence graphemes(true) splits it into; "-" is an ordinary
\* character of the input alphabet as well as dtw_align's gap marker
Alphabet == {"a", "b", "-"}

\* The longest input string, in graphemes
MaxLen == 3

Strings == SeqsUpTo(Alphabet, MaxLen)

\* f64::INFINITY among costs that are otherwise small whole numbers: a value
\* above all of them, which addition leaves as it is
Infinity == 1000000

\* f64 + on costs
FAdd(x, y) == IF x = Infinity \/ y = Infinity THEN Infinity ELSE x + y

\* f64::min on costs
FMin(x, y) == IF x <= y THEN x ELSE y

\* dtw_align: match_cost of the segments a[i - 1], b[j - 1]
MatchCost(seg_a, seg_b) == IF seg_a = seg_b THEN 0 ELSE 1

\* A cell that looks at the upper and left neighbours only
DtwCellNoDiagonal(match_cost, up, left, diag) == FAdd(match_cost, FMin(up, left))

\* dtw_align: the value stored in cost[[i, j]], from cost[[i - 1, j]],
\* cost[[i, j - 1]] and cost[[i - 1, j - 1]]
DtwCell(match_cost, up, left, diag) == FAdd(match_cost, FMin(FMin(up, left), diag))

\* dtw_align: the cost table after the fill loops, indexed [i, j] from 0
CostTable(a, b) ==
    LET c[ij \in (0..Len(a)) \X (0..Len(b))] ==
            IF ij[1] = 0 /\ ij[2] = 0 THEN 0
            ELSE IF ij[1] = 0 \/ ij[2] = 0 THEN Infinity
            ELSE DtwCell(MatchCost(a[ij[1]], b[ij[2]]),
                         c[<<ij[1] - 1, ij[2]>>],
                         c[<<ij[1], ij[2] - 1>>],
                         c[<<ij[1] - 1, ij[2] - 1>>])
    IN  [ij \in (0..Len(a)) \X (0..Len(b)) |-> c[ij]]

\* Alignment::new
NewAlignment(sequence_a, sequence_b, ops, c) ==
    [sequence_a |-> sequence_a, sequence_b |-> sequence_b,
     operations |-> ops, cost |-> c]

\* Alignment::extract_correspondences: the (A, B) segments at the Substitute
\* positions that both sequences reach
ExtractCorrespondences(al) ==
    LET at == SelectSeq([k \in 1..Len(al.operations) |-> k],
                  LAMBDA k : /\ al.operations[k] = "Substitute"
                             /\ k <= Len(al.sequence_a)
                             /\ k <= Len(al.sequence_b))
    IN  [k \in 1..Len(at) |-> <<al.sequence_a[at[k]], al.sequence_b[at[k]]>>]

\* impl From<Alignment> for PyAlignment: the operations are not kept
PyAlignmentFrom(al) ==
    [sequence_a |-> al.sequence_a, sequence_b |-> al.sequence_b, cost |-> al.cost]

\* PyAlignment::correspondences: the (A, B) segments at the positions, up to
\* the shorter length, where the two differ and neither is "-"
PyCorrespondences(py) ==
    LET at == SelectSeq([k \in 1..Min2(Len(py.sequence_a), Len(py.sequence_b)) |-> k],
                  LAMBDA k : /\ py.sequence_a[k] # py.sequence_b[k]
                             /\ py.sequence_a[k] # "-"
                             /\ py.sequence_b[k] # "-")
    IN  [k \in 1..Len(at) |-> <<py.sequence_a[at[k]], py.sequence_b[at[k]]>>]

\* dtw_align, the return taken when len_a == 0 || len_b == 0
EmptyInputAlignment(segments_a, segments_b) ==
    NewAlignment(segments_a, segments_b, <<>>, 0)

\* dtw_align, one turn of the backtrack loop at (bi, bj) with bi > 0 or
\* bj > 0: the operation and the two segments pushed, and the next position
BacktrackTurn(a, b, c, bi, bj) ==
    IF bi = 0
    THEN [op |-> "Insert", seg_a |-> "-", seg_b |-> b[bj], i |-> bi, j |-> bj - 1]
    ELSE IF bj = 0
    THEN [op |-> "Delete", seg_a |-> a[bi], seg_b |-> "-", i |-> bi - 1, j |-> bj]
    ELSE LET diag == c[<<bi - 1, bj - 1>>]
             up == c[<<bi - 1, bj>>]
             left == c[<<bi, bj - 1>>]
         IN  IF diag <= up /\ diag <= left
             THEN [op |-> IF a[bi] = b[bj] THEN "Match" ELSE "Substitute",
                   seg_a |-> a[bi], seg_b |-> b[bj], i |-> bi - 1, j |-> bj - 1]
             ELSE IF up < left
             THEN [op |-> "Delete", seg_a |-> a[bi], seg_b |-> "-",
                   i |-> bi - 1, j |-> bj]
             ELSE [op |-> "Insert", seg_a |-> "-", seg_b |-> b[bj],
                   i |-> bi, j |-> bj - 1]

-----------------------------------------------------------------------------
(* The specification of one call of dtw_align *)

AlignIdle ==
    /\ ipa_a = <<>>
    /\ ipa_b = <<>>
    /\ cost = <<>>
    /\ cur_i = 0
    /\ cur_j = 0
    /\ operations = <<>>
    /\ aligned_a = <<>>
    /\ aligned_b = <<>>
    /\ alignment = <<>>
    /\ apc = "idle"
    /\ a_rules = <<>>
    /\ py_rules = <<>>

AlignInit ==
    /\ ipa_a \in Strings
    /\ ipa_b \in Strings
    /\ cost = <<>>
    /\ cur_i = 0
    /\ cur_j = 0
    /\ operations = <<>>
    /\ aligned_a = <<>>
    /\ aligned_b = <<>>
    /\ alignment = <<>>
    /\ apc = "start"
    /\ a_rules = <<>>
    /\ py_rules = <<>>

\* dtw_align with an empty argument: the early return
AlignEmptyInput ==
    /\ apc = "start"
    /\ ~(Len(ipa_a) # 0 /\ Len(ipa_b) # 0)
    /\ alignment' = EmptyInputAlignment(ipa_a, ipa_b)
    /\ apc' = "done"
    /\ UNCHANGED <<ipa_a, ipa_b, cost, cur_i, cur_j, operations, aligned_a, aligned_b, a_rules, py_rules, notAlign>>

\* dtw_align, the cost table filled and the backtrack set at (len_a, len_b)
AlignFill ==
    /\ apc = "start"
    /\ Len(ipa_a) # 0 /\ Len(ipa_b) # 0
    /\ cost' = CostTable(ipa_a, ipa_b)
    /\ cur_i' = Len(ipa_a)
    /\ cur_j' = Len(ipa_b)
    /\ apc' = "backtrack"
    /\ UNCHANGED <<ipa_a, ipa_b, operations, aligned_a, aligned_b, alignment,
                   a_rules, py_rules, notAlign>>

\* dtw_align, one turn of the loop while i > 0 || j > 0
AlignBacktrack ==
    /\ apc = "backtrack"
    /\ ~(cur_i = 0 /\ cur_j = 0)
    /\ LET t == BacktrackTurn(ipa_a, ipa_b, cost, cur_i, cur_j)
       IN  /\ operations' = Append(operations, t.op)
           /\ aligned_a' = Append(aligned_a, t.seg_a)
           /\ aligned_b' = Append(aligned_b, t.seg_b)
           /\ cur_i' = t.i
           /\ cur_j' = t.j
    /\ UNCHANGED <<ipa_a, ipa_b, cost, alignment, apc, a_rules, py_rules, notAlign>>

\* dtw_align, after the loop: the three vectors reversed and returned
AlignReturn ==
    /\ apc = "backtrack"
    /\ cur_i = 0 /\ cur_j = 0
    /\ alignment' = NewAlignment(Reverse(aligned_a), Reverse(aligned_b),
                                 Reverse(operations),
                                 cost[<<Len(ipa_a), Len(ipa_b)>>])
    /\ apc' = "done"
    /\ UNCHANGED <<ipa_a, ipa_b, cost, cur_i, cur_j, operations, aligned_a, aligned_b, a_rules, py_rules, notAlign>>

\* The alignment returned, read for its correspondences on the Rust side
\* (extract_correspondences) and on the Python side (converted to a
\* PyAlignment, then correspondences())
AlignCorrespondences ==
    /\ apc = "done"
    /\ a_rules' = ExtractCorrespondences(alignment)
    /\ py_rules' = PyCorrespondences(PyAlignmentFrom(alignment))
    /\ apc' = "rules"
    /\ UNCHANGED <<ipa_a, ipa_b, cost, cur_i, cur_j, operations, aligned_a,
                   aligned_b, alignment, notAlign>>

AlignNext ==
    AlignEmptyInput \/ AlignFill \/ AlignBacktrack \/ AlignReturn \/ AlignCorrespondences

-----------------------------------------------------------------------------
(* phonetic.rs: Levenshtein similarity and LCS ratio *)

\* The f64 results of this section are quotients of small whole numbers. They
\* are modelled by exact fractions in lowest terms, so that two results are
\* equal exactly when the fractions are
RECURSIVE Gcd(_, _)
Gcd(m, n) == IF n = 0 THEN m ELSE Gcd(n, m % n)

Frac(n, d) == LET g == Gcd(n, d) IN [num |-> n \div g, den |-> d \div g]

\* The literal 1.0
One == [num |-> 1, den |-> 1]

\* x as f64 / y (y # 0), for whole numbers x >= 0, y > 0
FDiv(x, y) == Frac(x, y)

\* f64 - for fractions p >= q
FSub(p, q) == Frac(p.num * q.den - q.num * p.den, p.den * q.den)

\* levenshtein, the inner loop over b from index j (from 0): curr_row, held
\* as a sequence whose element k + 1 is the code's curr_row[k]
RECURSIVE LevFillRow(_, _, _, _, _)
LevFillRow(curr_row, prev_row, seg_a, b, jj) ==
    IF jj >= Len(b) THEN curr_row
    ELSE LET c == IF seg_a = b[jj + 1] THEN 0 ELSE 1
             v == Min2(Min2(curr_row[jj + 1] + 1, prev_row[jj + 2] + 1),
                       prev_row[jj + 1] + c)
         IN  LevFillRow([curr_row EXCEPT ![jj + 2] = v], prev_row, seg_a, b, jj + 1)

\* A levenshtein outer loop that never swaps the two rows: prev_row stays
\* the row of the empty prefix
RECURSIVE LevRowsNoSwap(_, _, _, _, _)
LevRowsNoSwap(prev_row, curr_row, a, b, ii) ==
    IF ii >= Len(a) THEN prev_row
    ELSE LET filled == LevFillRow([curr_row EXCEPT ![1] = ii + 1],
                                  prev_row, a[ii + 1], b, 0)
         IN  LevRowsNoSwap(prev_row, filled, a, b, ii + 1)

\* levenshtein, the outer loop over a from index ii (from 0), given the two
\* rows: prev_row after the last swap
RECURSIVE LevRows(_, _, _, _, _)
LevRows(prev_row, curr_row, a, b, ii) ==
    IF ii >= Len(a) THEN prev_row
    ELSE LET filled == LevFillRow([curr_row EXCEPT ![1] = ii + 1],
                                  prev_row, a[ii + 1], b, 0)
         IN  LevRows(filled, prev_row, a, b, ii + 1)

\* A levenshtein whose second early return gives 0 instead of len_a
LevenshteinEmptyBZero(a, b) ==
    IF Len(a) = 0 THEN Len(b)
    ELSE IF Len(b) = 0 THEN 0
    ELSE LevRows([k \in 1..(Len(b) + 1) |-> k - 1],
                 [k \in 1..(Len(b) + 1) |-> 0], a, b, 0)[Len(b) + 1]

\* levenshtein(a, b)
Levenshtein(a, b) ==
    IF Len(a) = 0 THEN Len(b)
    ELSE IF Len(b) = 0 THEN Len(a)
    ELSE LevRows([k \in 1..(Len(b) + 1) |-> k - 1],
                 [k \in 1..(Len(b) + 1) |-> 0], a, b, 0)[Len(b) + 1]

\* A phonetic_distance that returns 0.0 for two empty strings
PhoneticDistanceEmptyZero(a, b) ==
    LET distance == Levenshtein(a, b)
        max_len == Max2(Len(a), Len(b))
    IN  IF max_len = 0 THEN Frac(0, 1) ELSE FSub(One, FDiv(distance, max_len))

\* phonetic_distance(ipa_a, ipa_b)
PhoneticDistance(a, b) ==
    LET distance == Levenshtein(a, b)
        max_len == Max2(Len(a), Len(b))
    IN  IF max_len = 0 THEN One ELSE FSub(One, FDiv(distance, max_len))

\* lcs_length(a, b): dp[len_a][len_b] of the table the two loops fill
LcsLength(a, b) ==
    LET dp[ij \in (0..Len(a)) \X (0..Len(b))] ==
            IF ij[1] = 0 \/ ij[2] = 0 THEN 0
            ELSE IF a[ij[1]] = b[ij[2]] THEN dp[<<ij[1] - 1, ij[2] - 1>>] + 1
            ELSE Max2(dp[<<ij[1] - 1, ij[2]>>], dp[<<ij[1], ij[2] - 1>>])
    IN  dp[<<Len(a), Len(b)>>]

\* lcs_ratio(ipa_a, ipa_b)
LcsRatio(a, b) ==
    LET lcs_len == LcsLength(a, b)
        max_len == Max2(Len(a), Len(b))
    IN  IF max_len = 0 THEN One ELSE FDiv(lcs_len, max_len)

-----------------------------------------------------------------------------
(* The specification of calls of phonetic_distance and lcs_ratio *)

DistIdle ==
    /\ str_x = <<>>
    /\ str_y = <<>>
    /\ pd_ret = <<>>
    /\ lcs_ret = <<>>

DistInit ==
    /\ str_x \in Strings
    /\ str_y \in Strings
    /\ pd_ret = <<>>
    /\ lcs_ret = <<>>

\* The argument pairs of the calls: (x, y) and (y, x)
ArgPairs == {<<str_x, str_y>>, <<str_y, str_x>>}

\* A call phonetic_distance(args[1], args[2])
CallPhoneticDistance ==
    /\ \E args \in ArgPairs :
           /\ args \notin DOMAIN pd_ret
           /\ pd_ret' = (args :> PhoneticDistance(args[1], args[2])) @@ pd_ret
    /\ UNCHANGED <<str_x, str_y, lcs_ret, notDist>>

\* A call lcs_ratio(args[1], args[2])
CallLcsRatio ==
    /\ \E args \in ArgPairs :
           /\ args \notin DOMAIN lcs_ret
           /\ lcs_ret' = (args :> LcsRatio(args[1], args[2])) @@ lcs_ret
    /\ UNCHANGED <<str_x, str_y, pd_ret, notDist>>

DistNext == CallPhoneticDistance \/ CallLcsRatio

-----------------------------------------------------------------------------
(* phonetic.rs: the pairwise similarity matrix *)

\* The strings the lists given to compute_similarity_matrix are made of
MatrixWords == {<<>>, <<"a">>, <<"a", "b">>, <<"a", "b", "b">>}

\* The longest list given to compute_similarity_matrix
MaxStrings == 3

\* The literal 0.0
Zero == [num |-> 0, den |-> 1]

\* compute_similarity_matrix: the pairs (i, j), i < j, of 0..n-1 in the order
\* of the flat_map, from the pair (pi, pj) on
RECURSIVE PairsFrom(_, _, _)
PairsFrom(pi, pj, n) ==
    IF pi >= n THEN <<>>
    ELSE IF pj >= n THEN PairsFrom(pi + 1, pi + 2, n)
    ELSE <<<<pi, pj>>>> \o PairsFrom(pi, pj + 1, n)

\* compute_similarity_matrix: the matrix of zeros with the diagonal set to
\* 1.0, indexed [i, j] from 0
DiagonalMatrix(n) ==
    [rc \in (0..(n - 1)) \X (0..(n - 1)) |-> IF rc[1] = rc[2] THEN One ELSE Zero]

\* A fill that writes the upper triangle only
FillPairUpperOnly(m, pi, pj, sim) == [m EXCEPT ![<<pi, pj>>] = sim]

\* compute_similarity_matrix, the body of the fill loop
FillPair(m, pi, pj, sim) == [m EXCEPT ![<<pi, pj>>] = sim, ![<<pj, pi>>] = sim]

\* compute_similarity_matrix, the fill loop from position idx (from 1) of pairs
RECURSIVE FillMatrix(_, _, _, _)
FillMatrix(m, prs, results, idx) ==
    IF idx > Len(prs) THEN m
    ELSE FillMatrix(FillPair(m, prs[idx][1], prs[idx][2], results[idx]),
                    prs, results, idx + 1)

-----------------------------------------------------------------------------
(* The specification of one call of compute_similarity_matrix *)

MatrixIdle ==
    /\ ipa_strings = <<>>
    /\ pairs = <<>>
    /\ sims = <<>>
    /\ matrix = <<>>
    /\ mpc = "idle"

MatrixInit ==
    /\ ipa_strings \in SeqsUpTo(MatrixWords, MaxStrings)
    /\ pairs = <<>>
    /\ sims = <<>>
    /\ matrix = <<>>
    /\ mpc = "start"

\* The matrix allocated, its diagonal set, the pairs collected
MatrixStart ==
    /\ mpc = "start"
    /\ matrix' = DiagonalMatrix(Len(ipa_strings))
    /\ pairs' = PairsFrom(0, 1, Len(ipa_strings))
    /\ mpc' = "map"
    /\ UNCHANGED <<ipa_strings, sims, notMatrix>>

\* A worker of the parallel map finishes one pair; collect() puts its result
\* in the slot of the pair's position, whenever it finishes
MatrixWorker ==
    /\ mpc = "map"
    /\ \E idx \in (1..Len(pairs)) \ DOMAIN sims :
           sims' = (idx :> PhoneticDistance(ipa_strings[pairs[idx][1] + 1],
                                            ipa_strings[pairs[idx][2] + 1])) @@ sims
    /\ UNCHANGED <<ipa_strings, pairs, matrix, mpc, notMatrix>>

\* All workers have finished: the fill loop, and the return
MatrixFill ==
    /\ mpc = "map"
    /\ DOMAIN sims = 1..Len(pairs)
    /\ matrix' = FillMatrix(matrix, pairs, sims, 1)
    /\ mpc' = "done"
    /\ UNCHANGED <<ipa_strings, pairs, sims, notMatrix>>

MatrixNext == MatrixStart \/ MatrixWorker \/ MatrixFill

-----------------------------------------------------------------------------
(* The specification of UnionFind under arbitrary calls *)

\* The forest held in the variables
CurUF == [parent |-> parent, rank |-> rank]

UFIdle ==
    /\ parent = <<>>
    /\ rank = <<>>
    /\ ret = <<>>
    /\ unions = {}

UFInit ==
    /\ parent = UFNew(NItems).parent
    /\ rank = UFNew(NItems).rank
    /\ ret = <<>>
    /\ unions = {}

\* A call uf.union(x, y)
UnionCall(x, y) ==
    LET uf2 == Union(CurUF, x, y)
    IN  /\ parent' = uf2.parent
        /\ rank' = uf2.rank
        /\ ret' = <<>>
        /\ unions' = IF x = y THEN unions ELSE unions \cup {{x, y}}

\* A call uf.find(x)
FindCall(x) ==
    LET f == Find(CurUF, x)
    IN  /\ parent' = f.uf.parent
        /\ rank' = f.uf.rank
        /\ ret' = <<f.root>>
        /\ UNCHANGED unions

UFUnion == (\E x \in Items, y \in Items : UnionCall(x, y)) /\ UNCHANGED notUF

UFFind == (\E x \in Items : FindCall(x)) /\ UNCHANGED notUF

UFNext == UFUnion \/ UFFind

-----------------------------------------------------------------------------
(* sparse.rs: SparseSimilarityMatrix *)

\* The weights and thresholds given to the sparse matrix, in halves: 2 is
\* the f64 1.0
SparseWeights == {1, 2, 3}

SparseThresholds == {2}

\* The literal 1.0 of the diagonal, in the unit of SparseWeights
DiagonalValue == 2

\* The longest edge list given to SparseSimilarityMatrix::from_edges
MaxSparseEdges == 2

\* from_edges, the loop over the edges: the add_triplet calls in order, with
\* rows and columns counted from 0
RECURSIVE EdgeTriplets(_, _, _)
EdgeTriplets(es, t, ids) ==
    IF es = <<>> THEN <<>>
    ELSE LET e == Head(es)
             ri == IdToIdx(ids, e[1])
             rj == IdToIdx(ids, e[2])
             own == IF e[3] >= t
                    THEN IF ri # rj THEN <<<<ri, rj, e[3]>>, <<rj, ri, e[3]>>>>
                                    ELSE <<<<ri, rj, e[3]>>>>
                    ELSE <<>>
         IN  own \o EdgeTriplets(Tail(es), t, ids)

\* from_edges, the loop for i in 0..n adding the diagonal
DiagonalTriplets(n) == [k \in 1..n |-> <<k - 1, k - 1, DiagonalValue>>]

\* The value sprs stores at (ri, rj): TriMat::to_csr adds up the triplets
\* that share a position
RECURSIVE SumAt(_, _, _)
SumAt(triplets, ri, rj) ==
    IF triplets = <<>> THEN 0
    ELSE (IF Head(triplets)[1] = ri /\ Head(triplets)[2] = rj
          THEN Head(triplets)[3] ELSE 0) + SumAt(Tail(triplets), ri, rj)

\* The columns stored in row ri, ascending
StoredColumns(triplets, n, ri) ==
    SelectSeq([k \in 1..n |-> k - 1],
              LAMBDA c : \E k \in 1..Len(triplets) :
                             triplets[k][1] = ri /\ triplets[k][2] = c)

\* TriMat::to_csr: row ri (from 0) is the sequence of its stored
\* (column, value) pairs in ascending column order
ToCsr(triplets, n) ==
    [ri \in 0..(n - 1) |->
        LET cols == StoredColumns(triplets, n, ri)
        IN  [k \in 1..Len(cols) |-> <<cols[k], SumAt(triplets, ri, cols[k])>>]]

\* SparseSimilarityMatrix::from_edges(edges, threshold)
SparseFromEdges(es, t) ==
    LET ids == SortIds(IdSet(es))
        n == Len(ids)
    IN  [matrix |-> ToCsr(EdgeTriplets(es, t, ids) \o DiagonalTriplets(n), n),
         row_ids |-> ids,
         col_ids |-> ids]

\* Option::None of row_ids.iter().position(..)
NoIndex == 0 - 1

\* A lookup that falls back to the first row for an id it does not hold
RowIndexOrFirst(row_ids, entry_id) ==
    IF entry_id \in Range(row_ids) THEN IdToIdx(row_ids, entry_id)
    ELSE IF row_ids = <<>> THEN NoIndex ELSE 0

\* self.row_ids.iter().position(|id| id == entry_id)
RowIndex(row_ids, entry_id) ==
    IF entry_id \in Range(row_ids) THEN IdToIdx(row_ids, entry_id) ELSE NoIndex

\* A heap filled with every stored entry of the row, the diagonal included
HeapEntriesWithSelf(row, idx) == {<<row[k][2], row[k][1]>> : k \in 1..Len(row)}

\* knn, the loop pushing (OrderedFloat(value), col_idx) for the columns other
\* than idx: the content of the BinaryHeap
HeapEntries(row, idx) ==
    {<<row[k][2], row[k][1]>> : k \in {p \in 1..Len(row) : row[p][1] # idx}}

\* The Ord of (OrderedFloat<f64>, usize): by value, then by column index
TupleLeq(x, y) == x[1] < y[1] \/ (x[1] = y[1] /\ x[2] <= y[2])

\* BinaryHeap::pop on a non-empty max-heap: the greatest element
HeapTop(heap) == CHOOSE x \in heap : \A y \in heap : TupleLeq(y, x)

\* knn, the loop for _ in 0..k popping the heap into results
RECURSIVE PopK(_, _, _)
PopK(col_ids, heap, k) ==
    IF k = 0 \/ heap = {} THEN <<>>
    ELSE LET top == HeapTop(heap)
         IN  <<<<col_ids[top[2] + 1], top[1]>>>> \o PopK(col_ids, heap \ {top}, k - 1)

\* SparseSimilarityMatrix::knn(entry_id, k)
Knn(m, entry_id, k) ==
    LET idx == RowIndex(m.row_ids, entry_id)
    IN  IF idx = NoIndex THEN <<>>
        ELSE PopK(m.col_ids, HeapEntries(m.matrix[idx], idx), k)

\* SparseSimilarityMatrix::neighbors_above_threshold(entry_id, threshold)
NeighborsAboveThreshold(m, entry_id, t) ==
    LET idx == RowIndex(m.row_ids, entry_id)
    IN  IF idx = NoIndex THEN <<>>
        ELSE LET kept == SelectSeq(m.matrix[idx],
                             LAMBDA cv : cv[1] # idx /\ cv[2] >= t)
             IN  [k \in 1..Len(kept) |-> <<m.col_ids[kept[k][1] + 1], kept[k][2]>>]

-----------------------------------------------------------------------------
(* graph.rs: shortest_paths *)

\* Option::None and Some(map) of shortest_paths
NoPaths == [some |-> FALSE]

\* One round of edge relaxation over the undirected edges of g from the
\* distances dist (element k + 1 is the distance of node k)
RelaxOnce(g, dist) ==
    [k \in 1..Len(dist) |->
        LET into == {FAdd(dist[e[1] + 1], e[3]) : e \in {x \in Range(g.edges) : x[2] = k - 1}}
                      \cup {FAdd(dist[e[2] + 1], e[3]) : e \in {x \in Range(g.edges) : x[1] = k - 1}}
            best == {d \in into \cup {dist[k]} : \A o \in into \cup {dist[k]} : d <= o}
        IN  CHOOSE d \in best : TRUE]

RECURSIVE RelaxRounds(_, _, _)
RelaxRounds(g, dist, rounds) ==
    IF rounds = 0 THEN dist ELSE RelaxRounds(g, RelaxOnce(g, dist), rounds - 1)

\* petgraph::algo::dijkstra(graph, start, None, |e| *e.weight()): the least
\* cost of a path from start to each node it reaches
Dijkstra(g, start) ==
    RelaxRounds(g, [k \in 1..Len(g.nodes) |-> IF k - 1 = start THEN 0 ELSE Infinity],
                Len(g.nodes))

\* CognateGraph::shortest_paths(source_id)
ShortestPaths(g, source_id) ==
    IF source_id \notin DOMAIN g.node_map THEN NoPaths
    ELSE LET dist == Dijkstra(g, g.node_map[source_id])
         IN  [some |-> TRUE,
              paths |-> [id \in {g.nodes[k] : k \in {p \in 1..Len(dist) : dist[p] # Infinity}}
                            |-> dist[g.node_map[id] + 1]]]

-----------------------------------------------------------------------------
(* The specification of the id-keyed queries on one input: the sparse      *)
(* matrix and the graph built from one edge list, then one call of knn,    *)
(* neighbors_above_threshold or shortest_paths                             *)

\* An id that no edge carries
UnknownId == "z"

QueryIds == Ids \cup {UnknownId}

SparseEdgeInputs == SeqsUpTo(Ids \X Ids \X SparseWeights, MaxSparseEdges)

\* The k arguments of knn: a row over three ids holds at most two neighbours
KValues == 0..3

NoCall == [op |-> "none"]

QueryIdle ==
    /\ q_edges = <<>>
    /\ q_threshold = 0
    /\ q_matrix = <<>>
    /\ q_graph = NewGraph
    /\ q_call = NoCall
    /\ q_ret = <<>>
    /\ qpc = "idle"

QueryInit ==
    /\ q_edges \in SparseEdgeInputs
    /\ q_threshold \in SparseThresholds
    /\ q_matrix = <<>>
    /\ q_graph = NewGraph
    /\ q_call = NoCall
    /\ q_ret = <<>>
    /\ qpc = "start"

\* SparseSimilarityMatrix::from_edges(edges, threshold)
BuildSparse ==
    /\ qpc = "start"
    /\ q_matrix' = SparseFromEdges(q_edges, q_threshold)
    /\ qpc' = "matrix"
    /\ UNCHANGED <<q_edges, q_threshold, q_graph, q_call, q_ret, notQuery>>

\* CognateGraph::from_edges(edges, threshold) on the same triples
BuildQueryGraph ==
    /\ qpc = "matrix"
    /\ q_graph' = FromEdges(q_edges, q_threshold)
    /\ qpc' = "ready"
    /\ UNCHANGED <<q_edges, q_threshold, q_matrix, q_call, q_ret, notQuery>>

\* matrix.knn(entry_id, k)
CallKnn ==
    /\ qpc = "ready"
    /\ \E entry_id \in QueryIds, k \in KValues :
           /\ q_call' = [op |-> "knn", id |-> entry_id, k |-> k]
           /\ q_ret' = Knn(q_matrix, entry_id, k)
    /\ qpc' = "done"
    /\ UNCHANGED <<q_edges, q_threshold, q_matrix, q_graph, notQuery>>

\* matrix.neighbors_above_threshold(entry_id, threshold)
CallNeighborsAboveThreshold ==
    /\ qpc = "ready"
    /\ \E entry_id \in QueryIds, t \in SparseWeights :
           /\ q_call' = [op |-> "neighbors_above_threshold", id |-> entry_id, t |-> t]
           /\ q_ret' = NeighborsAboveThreshold(q_matrix, entry_id, t)
    /\ qpc' = "done"
    /\ UNCHANGED <<q_edges, q_threshold, q_matrix, q_graph, notQuery>>

\* graph.shortest_paths(source_id)
CallShortestPaths ==
    /\ qpc = "ready"
    /\ \E source_id \in QueryIds :
           /\ q_call' = [op |-> "shortest_paths", id |-> source_id]
           /\ q_ret' = ShortestPaths(q_graph, source_id)
    /\ qpc' = "done"
    /\ UNCHANGED <<q_edges, q_threshold, q_matrix, q_graph, notQuery>>

QueryNext ==
    \/ BuildSparse
    \/ BuildQueryGraph
    \/ CallKnn
    \/ CallNeighborsAboveThreshold
    \/ CallShortestPaths

-----------------------------------------------------------------------------
(* graph.rs: compute_pagerank and stats *)

\* f64 arithmetic on exact fractions in lowest terms
RAdd(p, q) == Frac(p.num * q.den + q.num * p.den, p.den * q.den)

RMul(p, q) == Frac(p.num * q.num, p.den * q.den)

\* p / (k as f64) for a whole number k > 0
RDivInt(p, k) == Frac(p.num, p.den * k)

\* A degree that counts the distinct nodes next to node
DegreeDistinctNeighbors(g, node) ==
    Cardinality({e[2] : e \in {x \in Range(g.edges) : x[1] = node}}
                    \cup {e[1] : e \in {x \in Range(g.edges) : x[2] = node}})

\* self.graph.edges(node).count() of the undirected petgraph Graph: the edges
\* leaving node and the edges entering it, a self-loop counted once
Degree(g, node) ==
    Len(SelectSeq(g.edges, LAMBDA e : e[1] = node))
        + Len(SelectSeq(g.edges, LAMBDA e : e[2] = node /\ e[1] # node))

\* compute_pagerank, the loop over the neighbours of one node: new_ranks
\* after amount was added at each of nbrs (element k + 1 is the rank of
\* node k)
RECURSIVE Distribute(_, _, _)
Distribute(nr, nbrs, amount) ==
    IF nbrs = <<>> THEN nr
    ELSE Distribute([nr EXCEPT ![Head(nbrs) + 1] = RAdd(@, amount)],
                    Tail(nbrs), amount)

\* compute_pagerank, the loop for node_idx in node_indices() from node on
RECURSIVE Contribute(_, _, _, _, _)
Contribute(g, d, rk, nr, node) ==
    IF node >= Len(g.nodes) THEN nr
    ELSE LET out_degree == Degree(g, node)
         IN  Contribute(g, d, rk,
                 IF out_degree > 0
                 THEN Distribute(nr, Neighbors(g, node),
                                 RMul(d, RDivInt(rk[node + 1], out_degree)))
                 ELSE nr,
                 node + 1)

\* compute_pagerank, one turn of the loop for _ in 0..iterations: the ranks
\* after the fill, the contributions and the swap
PageRankIteration(g, d, rk) ==
    LET n == Len(g.nodes)
        base == RDivInt(FSub(One, d), n)
    IN  Contribute(g, d, rk, [k \in 1..n |-> base], 0)

\* compute_pagerank, the initial vector vec![1.0 / n as f64; n]
UniformRanks(n) == [k \in 1..n |-> FDiv(1, n)]

\* compute_pagerank, the final zip of node ids and ranks into a HashMap
RankMap(g, rk) == [id \in Range(g.nodes) |-> rk[g.node_map[id] + 1]]

\* petgraph::algo::connected_components(&graph): the number of sets of a
\* union-find over the nodes after uniting the two ends of every edge
ConnectedComponents(g) ==
    Cardinality(ComponentRoots(UnionAll(UFNew(Len(g.nodes)), g.edges, 0),
                               Len(g.nodes)))

\* CognateGraph::stats()
Stats(g) ==
    LET num_nodes == Len(g.nodes)
        num_edges == Len(g.edges)
    IN  [num_nodes |-> num_nodes,
         num_edges |-> num_edges,
         avg_degree |-> IF num_nodes > 0 THEN FDiv(2 * num_edges, num_nodes)
                        ELSE Zero,
         density |-> IF num_nodes > 1
                     THEN FDiv(2 * num_edges, num_nodes * (num_nodes - 1))
                     ELSE Zero,
         num_components |-> ConnectedComponents(g)]

-----------------------------------------------------------------------------
(* The specification of one run of from_edges followed by stats or by      *)
(* compute_pagerank, one turn of its loop at a time                        *)

\* The longest edge list and the most iterations given to the run
MaxRankEdges == 2

MaxIterations == 2

RankEdgeInputs == SeqsUpTo(Ids \X Ids \X Weights, MaxRankEdges)

\* The damping arguments: 0.0, 0.5 and 1.0
Dampings == {Zero, Frac(1, 2), One}

RankIdle ==
    /\ r_edges = <<>>
    /\ r_threshold = 0
    /\ r_graph = NewGraph
    /\ r_damping = Zero
    /\ r_iterations = 0
    /\ r_turn = 0
    /\ r_ranks = <<>>
    /\ r_stats = <<>>
    /\ r_ret = <<>>
    /\ rpc = "idle"

RankInit ==
    /\ r_edges \in RankEdgeInputs
    /\ r_threshold \in Thresholds
    /\ r_graph = NewGraph
    /\ r_damping = Zero
    /\ r_iterations = 0
    /\ r_turn = 0
    /\ r_ranks = <<>>
    /\ r_stats = <<>>
    /\ r_ret = <<>>
    /\ rpc = "start"

\* CognateGraph::from_edges(edges, threshold)
BuildRankGraph ==
    /\ rpc = "start"
    /\ r_graph' = FromEdges(r_edges, r_threshold)
    /\ rpc' = "built"
    /\ UNCHANGED <<r_edges, r_threshold, r_damping, r_iterations, r_turn,
                   r_ranks, r_stats, r_ret, notRank>>

\* graph.stats()
CallStats ==
    /\ rpc = "built"
    /\ r_stats' = Stats(r_graph)
    /\ rpc' = "stats"
    /\ UNCHANGED <<r_edges, r_threshold, r_graph, r_damping, r_iterations,
                   r_turn, r_ranks, r_ret, notRank>>

\* graph.compute_pagerank(damping, iterations) on an empty graph: the early
\* return of an empty map
PageRankEmpty ==
    /\ rpc = "built"
    /\ Len(r_graph.nodes) = 0
    /\ \E d \in Dampings, its \in 0..MaxIterations :
           /\ r_damping' = d
           /\ r_iterations' = its
    /\ r_ret' = <<>>
    /\ rpc' = "done"
    /\ UNCHANGED <<r_edges, r_threshold, r_graph, r_turn, r_ranks, r_stats,
                   notRank>>

\* graph.compute_pagerank(damping, iterations), up to the loop
PageRankStart ==
    /\ rpc = "built"
    /\ Len(r_graph.nodes) > 0
    /\ \E d \in Dampings, its \in 0..MaxIterations :
           /\ r_damping' = d
           /\ r_iterations' = its
    /\ r_ranks' = UniformRanks(Len(r_graph.nodes))
    /\ r_turn' = 0
    /\ rpc' = "loop"
    /\ UNCHANGED <<r_edges, r_threshold, r_graph, r_stats, r_ret, notRank>>

\* compute_pagerank, one turn of the loop
PageRankTurn ==
    /\ rpc = "loop"
    /\ r_turn < r_iterations
    /\ r_ranks' = PageRankIteration(r_graph, r_damping, r_ranks)
    /\ r_turn' = r_turn + 1
    /\ UNCHANGED <<r_edges, r_threshold, r_graph, r_damping, r_iterations,
                   r_stats, r_ret, rpc, notRank>>

\* compute_pagerank, after the loop: the map returned
PageRankReturn ==
    /\ rpc = "loop"
    /\ r_turn >= r_iterations
    /\ r_ret' = RankMap(r_graph, r_ranks)
    /\ rpc' = "done"
    /\ UNCHANGED <<r_edges, r_threshold, r_graph, r_damping, r_iterations,
                   r_turn, r_ranks, r_stats, notRank>>

RankNext ==
    \/ BuildRankGraph
    \/ CallStats
    \/ PageRankEmpty
    \/ PageRankStart
    \/ PageRankTurn
    \/ PageRankReturn

-----------------------------------------------------------------------------
(* graph.rs: detect_communities *)

\* f64 < on fractions (denominators are positive)
RLess(p, q) == p.num * q.den < q.num * p.den

\* const MAX_ITERATIONS: usize = 10
MAX_ITERATIONS == 10

\* find_node_community(node, communities): the index (from 0) of the first
\* community that contains node, 0 when none does
FindNodeCommunity(node, communities) ==
    LET holding == {k \in 1..Len(communities) : node \in Range(communities[k])}
    IN  IF holding = {} THEN 0
        ELSE (CHOOSE k \in holding : \A o \in holding : k <= o) - 1

\* A move_node that pushes the node on the community joined and leaves it in
\* the community it came from
MoveNodeNoRetain(node, from, to, communities) ==
    [communities EXCEPT ![to + 1] = Append(@, node)]

\* move_node(node, from, to, communities): retain on the community left,
\* push on the community joined
MoveNode(node, from, to, communities) ==
    LET retained == [communities EXCEPT
                        ![from + 1] = SelectSeq(@, LAMBDA x : x # node)]
    IN  [retained EXCEPT ![to + 1] = Append(@, node)]

\* compute_modularity, the loops over one community: the number of
\* (node, edge) pairs whose edge leads into the community
InternalEdges(g, community) ==
    LET counts == [k \in 1..Len(community) |->
                      Len(SelectSeq(Neighbors(g, community[k]),
                                    LAMBDA x : x \in Range(community)))]
        sum[k \in 0..Len(community)] ==
            IF k = 0 THEN 0 ELSE sum[k - 1] + counts[k]
    IN  sum[Len(community)]

\* compute_modularity, total_degree of one community
TotalDegree(g, community) ==
    LET sum[k \in 0..Len(community)] ==
            IF k = 0 THEN 0 ELSE sum[k - 1] + Degree(g, community[k])
    IN  sum[Len(community)]

\* compute_modularity, the term one non-empty community adds:
\* (internal_edges / 2) / m - resolution * (total_degree / (2 m))^2
CommunityTerm(g, community, resolution) ==
    LET m == Len(g.edges)
        td == FDiv(TotalDegree(g, community), 2 * m)
    IN  RAdd(FDiv(InternalEdges(g, community), 2 * m),
             RMul([num |-> 0 - 1, den |-> 1], RMul(resolution, RMul(td, td))))

\* compute_modularity(communities, resolution)
RECURSIVE ComputeModularity(_, _, _)
ComputeModularity(g, communities, resolution) ==
    IF Len(g.edges) = 0 \/ communities = <<>> THEN Zero
    ELSE RAdd(IF Head(communities) = <<>> THEN Zero
              ELSE CommunityTerm(g, Head(communities), resolution),
              ComputeModularity(g, Tail(communities), resolution))

\* An acceptance test that also takes a move of equal modularity
ImprovesOrEqual(new_modularity, best_modularity) ==
    ~RLess(new_modularity, best_modularity)

\* detect_communities, the test new_modularity > best_modularity
Improves(new_modularity, best_modularity) ==
    RLess(best_modularity, new_modularity)

\* detect_communities, the body of the loop over the neighbours for one
\* neighbour: best (the record of best_community, best_modularity and
\* improved) after the neighbour was tried
TryNeighbor(g, resolution, communities, node, current_community, neighbor, best) ==
    LET neighbor_community == FindNodeCommunity(neighbor, communities)
    IN  IF neighbor_community = current_community THEN best
        ELSE CHOOSE r \in
                 {IF Improves(new_modularity, best.best_modularity)
                  THEN [best_community |-> neighbor_community,
                        best_modularity |-> new_modularity,
                        improved |-> TRUE]
                  ELSE best :
                     new_modularity \in
                         {ComputeModularity(g,
                              MoveNode(node, current_community,
                                       neighbor_community, communities),
                              resolution)}} : TRUE

\* detect_communities, the loop over the neighbours nbrs of node
RECURSIVE TryNeighbors(_, _, _, _, _, _, _)
TryNeighbors(g, resolution, communities, node, current_community, nbrs, best) ==
    IF nbrs = <<>> THEN best
    ELSE CHOOSE r \in
             {TryNeighbors(g, resolution, communities, node, current_community,
                           Tail(nbrs), next) :
                 next \in {TryNeighbor(g, resolution, communities, node,
                                       current_community, Head(nbrs), best)}} : TRUE

\* A commit that moves the node into the first community of the vector
\* whenever the best community is another one than the current
CommitBestIntoFirst(communities, node, current_community, best) ==
    [communities |-> IF best.best_community # current_community
                     THEN MoveNode(node, current_community, 0, communities)
                     ELSE communities,
     improved |-> best.improved]

\* detect_communities, the end of the body of the loop for node in
\* node_indices(): the move to best_community when it is another community
CommitBest(communities, node, current_community, best) ==
    [communities |-> IF best.best_community # current_community
                     THEN MoveNode(node, current_community,
                                   best.best_community, communities)
                     ELSE communities,
     improved |-> best.improved]

\* detect_communities, the body of the loop for node in node_indices(): the
\* communities and the improved flag after the visit of node
VisitOf(g, resolution, communities, was_improved, node) ==
    CHOOSE r \in
        {CommitBest(communities, node, current_community,
             TryNeighbors(g, resolution, communities, node, current_community,
                 Neighbors(g, node),
                 [best_community |-> current_community,
                  best_modularity |-> best_modularity,
                  improved |-> was_improved])) :
            current_community \in {FindNodeCommunity(node, communities)},
            best_modularity \in {ComputeModularity(g, communities, resolution)}} : TRUE

\* detect_communities, the conversion of the non-empty communities to ids
CommunityIds(g, communities) ==
    LET kept == SelectSeq(communities, LAMBDA c : c # <<>>)
    IN  [k \in 1..Len(kept) |-> [p \in 1..Len(kept[k]) |-> g.nodes[kept[k][p] + 1]]]

-----------------------------------------------------------------------------
(* The specification of one run of from_edges followed by                  *)
(* detect_communities, one node visit at a time                            *)

\* The longest edge list given to the run
MaxCommEdges == 3

\* The edges of this run all weigh as much as the threshold: what the filter
\* of from_edges drops is the matter of the graph run above
CommEdgeInputs == SeqsUpTo(Ids \X Ids \X Thresholds, MaxCommEdges)

\* The resolution arguments: 0.0, 0.5 and 1.0
Resolutions == {Zero, Frac(1, 2), One}

CommIdle ==
    /\ c_edges = <<>>
    /\ c_threshold = 0
    /\ c_graph = NewGraph
    /\ c_resolution = Zero
    /\ c_communities = <<>>
    /\ c_improved = FALSE
    /\ c_iteration = 0
    /\ c_node = 0
    /\ c_trace = <<>>
    /\ c_ret = <<>>
    /\ cpc = "idle"

CommInit ==
    /\ c_edges \in CommEdgeInputs
    /\ c_threshold \in Thresholds
    /\ c_graph = NewGraph
    /\ c_resolution = Zero
    /\ c_communities = <<>>
    /\ c_improved = FALSE
    /\ c_iteration = 0
    /\ c_node = 0
    /\ c_trace = <<>>
    /\ c_ret = <<>>
    /\ cpc = "start"

\* CognateGraph::from_edges(edges, threshold)
BuildCommGraph ==
    /\ cpc = "start"
    /\ c_graph' = FromEdges(c_edges, c_threshold)
    /\ cpc' = "built"
    /\ UNCHANGED <<c_edges, c_threshold, c_resolution, c_communities,
                   c_improved, c_iteration, c_node, c_trace, c_ret, notComm>>

\* graph.detect_communities(resolution), up to the while loop: every node in
\* a community of its own
CommStart ==
    /\ cpc = "built"
    /\ c_resolution' \in Resolutions
    /\ c_communities' = [k \in 1..Len(c_graph.nodes) |-> <<k - 1>>]
    /\ c_improved' = TRUE
    /\ c_iteration' = 0
    /\ c_trace' = <<ComputeModularity(c_graph, c_communities', c_resolution')>>
    /\ cpc' = "while"
    /\ UNCHANGED <<c_edges, c_threshold, c_graph, c_node, c_ret, notComm>>

\* The while loop entered for one more pass
PassBegin ==
    /\ cpc = "while"
    /\ c_improved
    /\ c_iteration < MAX_ITERATIONS
    /\ c_improved' = FALSE
    /\ c_iteration' = c_iteration + 1
    /\ c_node' = 0
    /\ cpc' = "for"
    /\ UNCHANGED <<c_edges, c_threshold, c_graph, c_resolution, c_communities,
                   c_trace, c_ret, notComm>>

\* The visit of the next node of the pass; c_trace gains the modularity of
\* the partition when the visit commits a move
VisitNode ==
    /\ cpc = "for"
    /\ c_node < Len(c_graph.nodes)
    /\ \E visit \in {VisitOf(c_graph, c_resolution, c_communities, c_improved, c_node)} :
           /\ c_communities' = visit.communities
           /\ c_improved' = visit.improved
           /\ c_trace' = IF visit.communities # c_communities
                         THEN Append(c_trace,
                                  ComputeModularity(c_graph, visit.communities,
                                                    c_resolution))
                         ELSE c_trace
    /\ c_node' = c_node + 1
    /\ UNCHANGED <<c_edges, c_threshold, c_graph, c_resolution, c_iteration,
                   c_ret, cpc, notComm>>

\* The end of the pass
PassEnd ==
    /\ cpc = "for"
    /\ c_node >= Len(c_graph.nodes)
    /\ cpc' = "while"
    /\ UNCHANGED <<c_edges, c_threshold, c_graph, c_resolution, c_communities,
                   c_improved, c_iteration, c_node, c_trace, c_ret, notComm>>

\* The while loop left: the communities returned
CommReturn ==
    /\ cpc = "while"
    /\ ~(c_improved /\ c_iteration < MAX_ITERATIONS)
    /\ c_ret' = CommunityIds(c_graph, c_communities)
    /\ cpc' = "done"
    /\ UNCHANGED <<c_edges, c_threshold, c_graph, c_resolution, c_communities,
                   c_improved, c_iteration, c_node, c_trace, notComm>>

CommNext ==
    \/ BuildCommGraph
    \/ CommStart
    \/ PassBegin
    \/ VisitNode
    \/ PassEnd
    \/ CommReturn

-----------------------------------------------------------------------------
(* phonetic.rs: batch_phonetic_distance *)

\* The strings the pairs of a batch are made of
BatchWords == {<<>>, <<"a">>, <<"a", "b">>, <<"b", "a">>}

\* The longest pairs vector given to batch_phonetic_distance
MaxPairs == 2

\* A collect that lists the results in the order the workers finished
CollectAsFinished(slots, finished, n) == [k \in 1..n |-> slots[finished[k]]]

\* The collect() of the indexed parallel iterator: element k of the vector
\* is the result of the task of position k, whenever that task finished
CollectIndexed(slots, finished, n) == [k \in 1..n |-> slots[k]]

BatchIdle ==
    /\ b_pairs = <<>>
    /\ b_slots = <<>>
    /\ b_finished = <<>>
    /\ b_ret = <<>>
    /\ bpc = "idle"

BatchInit ==
    /\ b_pairs \in SeqsUpTo(BatchWords \X BatchWords, MaxPairs)
    /\ b_slots = <<>>
    /\ b_finished = <<>>
    /\ b_ret = <<>>
    /\ bpc = "map"

\* A worker of the parallel map runs the closure on one pair that no worker
\* has taken and finishes
BatchWorker ==
    /\ bpc = "map"
    /\ \E idx \in (1..Len(b_pairs)) \ DOMAIN b_slots :
           /\ b_slots' = (idx :> PhoneticDistance(b_pairs[idx][1], b_pairs[idx][2]))
                             @@ b_slots
           /\ b_finished' = Append(b_finished, idx)
    /\ UNCHANGED <<b_pairs, b_ret, bpc, notBatch>>

\* All tasks have finished: the vector collected and returned
BatchCollect ==
    /\ bpc = "map"
    /\ DOMAIN b_slots = 1..Len(b_pairs)
    /\ b_ret' = CollectIndexed(b_slots, b_finished, Len(b_pairs))
    /\ bpc' = "done"
    /\ UNCHANGED <<b_pairs, b_slots, b_finished, notBatch>>

BatchNext == BatchWorker \/ BatchCollect

-----------------------------------------------------------------------------
(* phonetic.rs: extract_sound_correspondences *)

\* The columns the alignments given to extract_sound_correspondences are
\* made of: a segment of A, a segment of B and the operation between them
Columns ==
    {<<"a", "a", "Match">>, <<"a", "b", "Substitute">>,
     <<"b", "a", "Substitute">>, <<"a", "-", "Delete">>}

\* The Alignment whose three vectors are read off the columns cols
AlignmentOf(cols) ==
    NewAlignment([k \in 1..Len(cols) |-> cols[k][1]],
                 [k \in 1..Len(cols) |-> cols[k][2]],
                 [k \in 1..Len(cols) |-> cols[k][3]], 0)

\* An Alignment whose operations outnumber the segments of A (the fields of
\* the struct are public, and any three vectors make one)
ShortAlignment ==
    NewAlignment(<<"a">>, <<"b", "a">>, <<"Substitute", "Substitute">>, 0)

\* The alignments given: those of at most two columns, and the short one
CorrAlignments == {AlignmentOf(cols) : cols \in SeqsUpTo(Columns, 2)} \cup {ShortAlignment}

\* The longest alignment list given to extract_sound_correspondences
MaxAlignments == 2

\* extract_sound_correspondences, the two loops: the correspondences of all
\* alignments in the order they are counted
RECURSIVE AllCorrespondences(_)
AllCorrespondences(alignments) ==
    IF alignments = <<>> THEN <<>>
    ELSE ExtractCorrespondences(Head(alignments))
             \o AllCorrespondences(Tail(alignments))

\* correspondence_counts after the loops: *entry(c).or_insert(0) += 1
CorrespondenceCounts(alignments) ==
    LET rules == AllCorrespondences(alignments)
    IN  [c \in Range(rules) |-> Cardinality({k \in 1..Len(rules) : rules[k] = c})]

\* correspondence_counts.into_iter().map(..).collect(), the map iterated in
\* the order `order` of its keys
CollectCounts(counts, order) ==
    [k \in 1..Len(order) |-> <<order[k][1], order[k][2], counts[order[k]]>>]

\* The place of e in a vector sorted by |a, b| b.2.cmp(&a.2): after every
\* element whose count is not smaller (the sort is stable)
RECURSIVE InsertByCount(_, _)
InsertByCount(sorted, e) ==
    IF sorted = <<>> THEN <<e>>
    ELSE IF e[3] > Head(sorted)[3] THEN <<e>> \o sorted
    ELSE <<Head(sorted)>> \o InsertByCount(Tail(sorted), e)

\* correspondences.sort_by(|a, b| b.2.cmp(&a.2)), a stable sort
RECURSIVE SortByCount(_)
SortByCount(v) ==
    IF v = <<>> THEN <<>>
    ELSE InsertByCount(SortByCount(SubSeq(v, 1, Len(v) - 1)), v[Len(v)])

-----------------------------------------------------------------------------
(* The specification of one call of extract_sound_correspondences *)

CorrIdle ==
    /\ x_alignments = <<>>
    /\ x_counts = <<>>
    /\ x_vec = <<>>
    /\ x_ret = <<>>
    /\ xpc = "idle"

CorrInit ==
    /\ x_alignments \in SeqsUpTo(CorrAlignments, MaxAlignments)
    /\ x_counts = <<>>
    /\ x_vec = <<>>
    /\ x_ret = <<>>
    /\ xpc = "start"

\* The loops that count the correspondences of every alignment
CorrCount ==
    /\ xpc = "start"
    /\ x_counts' = CorrespondenceCounts(x_alignments)
    /\ xpc' = "counted"
    /\ UNCHANGED <<x_alignments, x_vec, x_ret, notCorr>>

\* The map turned into a vector, in the order the HashMap iterates
CorrCollect ==
    /\ xpc = "counted"
    /\ \E order \in Orders(DOMAIN x_counts) :
           x_vec' = CollectCounts(x_counts, order)
    /\ xpc' = "collected"
    /\ UNCHANGED <<x_alignments, x_counts, x_ret, notCorr>>

\* The sort by frequency, and the return
CorrSort ==
    /\ xpc = "collected"
    /\ x_ret' = SortByCount(x_vec)
    /\ xpc' = "done"
    /\ UNCHANGED <<x_alignments, x_counts, x_vec, notCorr>>

CorrNext == CorrCount \/ CorrCollect \/ CorrSort

-----------------------------------------------------------------------------
(* phonetic-rs: the standalone crate's phonetic_distance *)

\* levenshtein of phonetic-rs, the inner loop over b from index j (from 0)
RECURSIVE StandaloneLevFillRow(_, _, _, _, _)
StandaloneLevFillRow(curr_row, prev_row, seg_a, b, jj) ==
    IF jj >= Len(b) THEN curr_row
    ELSE LET c == IF seg_a = b[jj + 1] THEN 0 ELSE 1
             v == Min2(Min2(curr_row[jj + 1] + 1, prev_row[jj + 2] + 1),
                       prev_row[jj + 1] + c)
         IN  StandaloneLevFillRow([curr_row EXCEPT ![jj + 2] = v], prev_row,
                                  seg_a, b, jj + 1)

\* levenshtein of phonetic-rs, the outer loop over a from index ii (from 0):
\* prev_row after the last swap
RECURSIVE StandaloneLevRows(_, _, _, _, _)
StandaloneLevRows(prev_row, curr_row, a, b, ii) ==
    IF ii >= Len(a) THEN prev_row
    ELSE LET filled == StandaloneLevFillRow([curr_row EXCEPT ![1] = ii + 1],
                                            prev_row, a[ii + 1], b, 0)
         IN  StandaloneLevRows(filled, prev_row, a, b, ii + 1)

\* levenshtein(a, b) of phonetic-rs
StandaloneLevenshtein(a, b) ==
    IF Len(a) = 0 THEN Len(b)
    ELSE IF Len(b) = 0 THEN Len(a)
    ELSE StandaloneLevRows([k \in 1..(Len(b) + 1) |-> k - 1],
                           [k \in 1..(Len(b) + 1) |-> 0], a, b, 0)[Len(b) + 1]

\* phonetic_distance(ipa_a, ipa_b) of phonetic-rs: Ok(0.0) when max_len is 0
StandalonePhoneticDistance(a, b) ==
    LET distance == StandaloneLevenshtein(a, b)
        max_len == Max2(Len(a), Len(b))
    IN  IF max_len = 0 THEN Zero ELSE FSub(One, FDiv(distance, max_len))

-----------------------------------------------------------------------------
(* The specification of one comparison of the two crates: each crate's     *)
(* phonetic_distance called once on the same two strings                   *)

CrateIdle ==
    /\ p_ipa_a = <<>>
    /\ p_ipa_b = <<>>
    /\ p_langviz = <<>>
    /\ p_standalone = <<>>

CrateInit ==
    /\ p_ipa_a \in Strings
    /\ p_ipa_b \in Strings
    /\ p_langviz = <<>>
    /\ p_standalone = <<>>

\* langviz_rs::phonetic::phonetic_distance(ipa_a, ipa_b)
CallLangviz ==
    /\ p_langviz = <<>>
    /\ p_langviz' = <<PhoneticDistance(p_ipa_a, p_ipa_b)>>
    /\ UNCHANGED <<p_ipa_a, p_ipa_b, p_standalone, notCrate>>

\* langviz_phonetic (phonetic-rs) phonetic_distance(ipa_a, ipa_b)
CallStandalone ==
    /\ p_standalone = <<>>
    /\ p_standalone' = <<StandalonePhoneticDistance(p_ipa_a, p_ipa_b)>>
    /\ UNCHANGED <<p_ipa_a, p_ipa_b, p_langviz, notCrate>>

CrateNext == CallLangviz \/ CallStandalone

-----------------------------------------------------------------------------
(* Specifications *)

InitUF ==
    /\ UFInit
    /\ GraphIdle
    /\ AlignIdle
    /\ DistIdle
    /\ MatrixIdle
    /\ QueryIdle
    /\ RankIdle
    /\ CommIdle
    /\ BatchIdle
    /\ CorrIdle
    /\ CrateIdle

SpecUF == InitUF /\ [][UFNext]_vars

InitGraph ==
    /\ GraphInit
    /\ UFIdle
    /\ AlignIdle
    /\ DistIdle
    /\ MatrixIdle
    /\ QueryIdle
    /\ RankIdle
    /\ CommIdle
    /\ BatchIdle
    /\ CorrIdle
    /\ CrateIdle

SpecGraph == InitGraph /\ [][GraphNext]_vars

InitAlign ==
    /\ AlignInit
    /\ UFIdle
    /\ GraphIdle
    /\ DistIdle
    /\ MatrixIdle
    /\ QueryIdle
    /\ RankIdle
    /\ CommIdle
    /\ BatchIdle
    /\ CorrIdle
    /\ CrateIdle

SpecAlign == InitAlign /\ [][AlignNext]_vars

InitDist ==
    /\ DistInit
    /\ UFIdle
    /\ GraphIdle
    /\ AlignIdle
    /\ MatrixIdle
    /\ QueryIdle
    /\ RankIdle
    /\ CommIdle
    /\ BatchIdle
    /\ CorrIdle
    /\ CrateIdle

SpecDist == InitDist /\ [][DistNext]_vars

InitMatrix ==
    /\ MatrixInit
    /\ UFIdle
    /\ GraphIdle
    /\ AlignIdle
    /\ DistIdle
    /\ QueryIdle
    /\ RankIdle
    /\ CommIdle
    /\ BatchIdle
    /\ CorrIdle
    /\ CrateIdle

SpecMatrix == InitMatrix /\ [][MatrixNext]_vars

InitQuery ==
    /\ QueryInit
    /\ UFIdle
    /\ GraphIdle
    /\ AlignIdle
    /\ DistIdle
    /\ MatrixIdle
    /\ RankIdle
    /\ CommIdle
    /\ BatchIdle
    /\ CorrIdle
    /\ CrateIdle

SpecQuery == InitQuery /\ [][QueryNext]_vars

InitRank ==
    /\ RankInit
    /\ UFIdle
    /\ GraphIdle
    /\ AlignIdle
    /\ DistIdle
    /\ MatrixIdle
    /\ QueryIdle
    /\ CommIdle
    /\ BatchIdle
    /\ CorrIdle
    /\ CrateIdle

SpecRank == InitRank /\ [][RankNext]_vars

InitComm ==
    /\ CommInit
    /\ UFIdle
    /\ GraphIdle
    /\ AlignIdle
    /\ DistIdle
    /\ MatrixIdle
    /\ QueryIdle
    /\ RankIdle
    /\ BatchIdle
    /\ CorrIdle
    /\ CrateIdle

SpecComm == InitComm /\ [][CommNext]_vars

InitBatch ==
    /\ BatchInit
    /\ UFIdle
    /\ GraphIdle
    /\ AlignIdle
    /\ DistIdle
    /\ MatrixIdle
    /\ QueryIdle
    /\ RankIdle
    /\ CommIdle
    /\ CorrIdle
    /\ CrateIdle

SpecBatch == InitBatch /\ [][BatchNext]_vars

InitCorr ==
    /\ CorrInit
    /\ UFIdle
    /\ GraphIdle
    /\ AlignIdle
    /\ DistIdle
    /\ MatrixIdle
    /\ QueryIdle
    /\ RankIdle
    /\ CommIdle
    /\ BatchIdle
    /\ CrateIdle

SpecCorr == InitCorr /\ [][CorrNext]_vars

InitCrate ==
    /\ CrateInit
    /\ UFIdle
    /\ GraphIdle
    /\ AlignIdle
    /\ DistIdle
    /\ MatrixIdle
    /\ QueryIdle
    /\ RankIdle
    /\ CommIdle
    /\ BatchIdle
    /\ CorrIdle

SpecCrate == InitCrate /\ [][CrateNext]_vars

-----------------------------------------------------------------------------
(* Claims about connected components and threshold clustering *)

\* The input triples whose weight is at least the threshold
AboveThreshold == {k \in 1..Len(edges) : edges[k][3] >= threshold}

\* The ids that are an end of some input triple at or above the threshold
AboveIds == {edges[k][1] : k \in AboveThreshold} \cup {edges[k][2] : k \in AboveThreshold}

\* The ids that occur in the input triples at all
InputIds == {edges[k][1] : k \in 1..Len(edges)} \cup {edges[k][2] : k \in 1..Len(edges)}

\* The ids joined to those of S by a path of input edges of weight >= threshold
RECURSIVE PathClosure(_)
PathClosure(S) ==
    LET T == S \cup {edges[k][1] : k \in {j \in AboveThreshold : edges[j][2] \in S}}
               \cup {edges[k][2] : k \in {j \in AboveThreshold : edges[j][1] \in S}}
    IN  IF T = S THEN S ELSE PathClosure(T)

Joined(a, b) == b \in PathClosure({a})

\* The member lists of the returned cognate sets, and the returned clusters,
\* as sets of sets
SetPartition == {Range(sets[k].members) : k \in 1..Len(sets)}

ClusterPartition == {Range(clusters[k]) : k \in 1..Len(clusters)}

RECURSIVE SumLen(_)
SumLen(ss) == IF ss = <<>> THEN 0 ELSE Len(Head(ss)) + SumLen(Tail(ss))

\* C1: the sets returned by from_edges(edges, t).find_cognate_sets() are the
\* connected components: every node is a member of exactly one set, no set is
\* empty, and two nodes share a set exactly when a path of edges of weight
\* >= t joins them.
C1_CognateSetsAreComponents ==
    gpc \in {"sets", "done"} =>
        LET nodes == Range(graph.nodes)
        IN  /\ \A k \in 1..Len(sets) : sets[k].members # <<>>
            /\ \A k \in 1..Len(sets) : Range(sets[k].members) \subseteq nodes
            /\ \A n \in nodes :
                   Cardinality({km \in (1..Len(sets)) \X (1..Len(graph.nodes)) :
                                   /\ km[2] <= Len(sets[km[1]].members)
                                   /\ sets[km[1]].members[km[2]] = n}) = 1
            /\ \A a \in nodes, b \in nodes :
                   (\E k \in 1..Len(sets) : {a, b} \subseteq Range(sets[k].members))
                       <=> Joined(a, b)

\* find_cognate_sets returned two or more sets, one of them with several
\* members, for an input that also holds an edge below the threshold
C1_Witness ==
    /\ gpc = "sets"
    /\ Len(sets) >= 2
    /\ \E k \in 1..Len(sets) : sets[k].size >= 2
    /\ AboveThreshold # 1..Len(edges)

\* C2: the clusters returned by threshold_clustering_with_ids are pairwise
\* disjoint and their sizes add up to the number of distinct ids occurring
\* in the input triples, those occurring only below the threshold included.
C2_ClustersCoverAllIds ==
    gpc = "done" =>
        /\ \A i \in 1..Len(clusters), j \in 1..Len(clusters) :
               i # j => Range(clusters[i]) \cap Range(clusters[j]) = {}
        /\ SumLen(clusters) = Cardinality(InputIds)

\* The clustering returned a cluster of two ids and a cluster for an id that
\* occurs only in triples below the threshold
C2_Witness ==
    /\ gpc = "done"
    /\ \E k \in 1..Len(clusters) : Len(clusters[k]) >= 2
    /\ InputIds \ AboveIds # {}

\* C3 as stated: the partition of ids produced by
\* threshold_clustering_with_ids(edges, t) is the same set of sets as the
\* member partition produced by find_cognate_sets on the graph built from the
\* same edges and t.
C3_SamePartition == gpc = "done" => ClusterPartition = SetPartition

\* C3 (amended): the clusters that hold an end of some edge of weight >= t
\* are, as a set of sets, the member partition of find_cognate_sets; every
\* other cluster is a single id that occurs only in triples below t.
C3_SamePartitionOnGraphNodes ==
    gpc = "done" =>
        /\ {c \in ClusterPartition : c \cap AboveIds # {}} = SetPartition
        /\ \A c \in ClusterPartition :
               c \cap AboveIds = {} =>
                   Cardinality(c) = 1 /\ c \subseteq InputIds \ AboveIds

\* Both results are in: a component of two or more nodes, matched by a
\* cluster, and a cluster for an id that occurs only below the threshold
C3_Witness ==
    /\ gpc = "done"
    /\ \E k \in 1..Len(sets) : sets[k].size >= 2
    /\ \E c \in ClusterPartition : c \cap AboveIds = {}

-----------------------------------------------------------------------------
(* Claims about dtw_align *)

\* C5: for every pair of input strings, empty ones included, the alignment
\* returned by dtw_align has sequence_a, sequence_b and operations of one
\* and the same length.
C5_EqualLengths ==
    apc = "done" =>
        /\ Len(alignment.sequence_a) = Len(alignment.sequence_b)
        /\ Len(alignment.sequence_b) = Len(alignment.operations)

\* C6: when either input of dtw_align is empty, the alignment returned has no
\* operations, an empty sequence_a, an empty sequence_b, and cost 0.
C6_EmptyInputEmptyAlignment ==
    (apc = "done" /\ (Len(ipa_a) = 0 \/ Len(ipa_b) = 0)) =>
        /\ alignment.operations = <<>>
        /\ alignment.sequence_a = <<>>
        /\ alignment.sequence_b = <<>>
        /\ alignment.cost = 0

\* C7: the cost returned by dtw_align is >= 0 and <= max(|A|, |B|).
C7_CostBounds ==
    apc = "done" =>
        /\ alignment.cost >= 0
        /\ alignment.cost <= Max2(Len(ipa_a), Len(ipa_b))

\* dtw_align returned for two non-empty inputs of different lengths with no
\* segment in common: the cost is the greater length
C7_Witness ==
    /\ apc = "done"
    /\ Len(ipa_a) >= 1
    /\ Len(ipa_b) > Len(ipa_a)
    /\ alignment.cost = Len(ipa_b)

-----------------------------------------------------------------------------
(* Claims about phonetic_distance, lcs_ratio and the similarity matrix *)

\* C8: phonetic_distance(x, x) returns exactly 1.0 for every string x, the
\* empty string included.
C8_IdenticalIsOne ==
    \A args \in DOMAIN pd_ret : args[1] = args[2] => pd_ret[args] = One

\* phonetic_distance has returned for two equal strings of two or more
\* segments
C8_Witness ==
    /\ str_x = str_y
    /\ Len(str_x) >= 2
    /\ <<str_x, str_x>> \in DOMAIN pd_ret

\* C9: phonetic_distance(x, y) = phonetic_distance(y, x) and
\* lcs_ratio(x, y) = lcs_ratio(y, x).
C9_Symmetric ==
    /\ \A args \in DOMAIN pd_ret :
           <<args[2], args[1]>> \in DOMAIN pd_ret =>
               pd_ret[args] = pd_ret[<<args[2], args[1]>>]
    /\ \A args \in DOMAIN lcs_ret :
           <<args[2], args[1]>> \in DOMAIN lcs_ret =>
               lcs_ret[args] = lcs_ret[<<args[2], args[1]>>]

\* Both functions have returned for both argument orders of two strings of
\* different lengths, with results strictly between 0.0 and 1.0
C9_Witness ==
    /\ Len(str_x) # Len(str_y)
    /\ DOMAIN pd_ret = {<<str_x, str_y>>, <<str_y, str_x>>}
    /\ DOMAIN lcs_ret = {<<str_x, str_y>>, <<str_y, str_x>>}
    /\ pd_ret[<<str_x, str_y>>] \notin {Zero, One}
    /\ lcs_ret[<<str_x, str_y>>] \notin {Zero, One}

\* C10: for a list of N strings compute_similarity_matrix returns an N x N
\* matrix M with M[i][i] = 1.0 and, for i # j,
\* M[i][j] = M[j][i] = phonetic_distance(s_i, s_j), in whatever order the
\* parallel workers finish.
C10_MatrixSymmetricUnitDiagonal ==
    mpc = "done" =>
        LET n == Len(ipa_strings)
        IN  /\ DOMAIN matrix = (0..(n - 1)) \X (0..(n - 1))
            /\ \A r \in 0..(n - 1) : matrix[<<r, r>>] = One
            /\ \A r \in 0..(n - 1), c \in 0..(n - 1) :
                   r # c =>
                       /\ matrix[<<r, c>>] = matrix[<<c, r>>]
                       /\ matrix[<<r, c>>] = PhoneticDistance(ipa_strings[r + 1],
                                                              ipa_strings[c + 1])

\* The matrix of three different strings has been returned, with three
\* different values off the diagonal
C10_Witness ==
    /\ mpc = "done"
    /\ Len(ipa_strings) = 3
    /\ Cardinality({matrix[<<0, 1>>], matrix[<<0, 2>>], matrix[<<1, 2>>]}) = 3
    /\ matrix[<<2, 0>>] # Zero

-----------------------------------------------------------------------------
(* Claims about UnionFind *)

\* The elements related to those of S by the pairs passed to union
RECURSIVE Close(_)
Close(S) ==
    LET T == S \cup {z \in Items : \E p \in unions : z \in p /\ p \cap S # {}}
    IN  IF T = S THEN S ELSE Close(T)

Related(a, b) == b \in Close({a})

\* What find(a) returns for each a in the current forest, as pairs <<a, root>>
RootPairs == {<<a, Find(CurUF, a).root>> : a \in Items}

\* The pairs for which find(a) == find(b)
SameSet ==
    {<<pq[1][1], pq[2][1]>> : pq \in {x \in RootPairs \X RootPairs : x[1][2] = x[2][2]}}

\* C4: after any sequence of union and find calls, find(a) == find(b) exactly
\* when a and b are related by the reflexive-symmetric-transitive closure of
\* the pairs passed to union; the value find returns is its own parent; and
\* a find call (the steps that return a value) leaves the relation "in the
\* same set" as it was.
C4_UnionFindIsClosure ==
    /\ [](SameSet = {ab \in Items \X Items : Related(ab[1], ab[2])})
    /\ [](ret # <<>> => parent[ret[1]] = ret[1])
    /\ [][ret' # <<>> => UFFind /\ SameSet' = SameSet]_vars

\* A find has just returned the root of a set of three or more elements
\* built by unions, while another element is still outside that set
C4_Witness ==
    /\ ret # <<>>
    /\ Cardinality(Close({ret[1]})) >= 3
    /\ Close({ret[1]}) # Items
    /\ \E a \in Items : a # ret[1] /\ Find(CurUF, a).root = ret[1]

-----------------------------------------------------------------------------
(* Claims about the sparse similarity matrix and the id-keyed queries *)

\* The matrix of the run is built
MatrixBuilt == qpc \in {"matrix", "ready", "done"}

\* The stored off-diagonal entries of the row of entry_id, as (id, value)
OffDiagonal(m, entry_id) ==
    LET idx == IdToIdx(m.row_ids, entry_id)
    IN  {<<m.col_ids[cv[1] + 1], cv[2]>> :
            cv \in {x \in Range(m.matrix[idx]) : x[1] # idx}}

\* The last call was knn on an id the matrix holds
KnownKnn == q_call.op = "knn" /\ q_call.id \in Range(q_matrix.row_ids)

\* C11: for every edge list and threshold, every diagonal entry (i, i) of the
\* matrix built by SparseSimilarityMatrix::from_edges is stored and has the
\* value exactly 1.0, self-edges and repeated edges in the input included.
C11_DiagonalIsOne ==
    MatrixBuilt =>
        \A ri \in DOMAIN q_matrix.matrix :
            <<ri, DiagonalValue>> \in Range(q_matrix.matrix[ri])

\* C12: for a known entry_id, knn(entry_id, k) returns min(k, d) pairs, d the
\* number of stored off-diagonal entries of the row; the pairs are stored
\* entries of the row in non-increasing weight order, none is entry_id
\* itself, and every stored off-diagonal entry that is not returned weighs
\* at most as much as every returned one.
C12_KnnTopK ==
    KnownKnn =>
        LET off == OffDiagonal(q_matrix, q_call.id)
        IN  /\ Len(q_ret) = Min2(q_call.k, Cardinality(off))
            /\ Range(q_ret) \subseteq off
            /\ Cardinality(Range(q_ret)) = Len(q_ret)
            /\ \A p \in 1..(Len(q_ret) - 1) : q_ret[p][2] >= q_ret[p + 1][2]
            /\ \A p \in 1..Len(q_ret) : q_ret[p][1] # q_call.id
            /\ \A e \in off \ Range(q_ret) :
                   \A p \in 1..Len(q_ret) : e[2] <= q_ret[p][2]

\* knn cut a row of two neighbours of different weight down to the heavier
C12_Witness ==
    /\ KnownKnn
    /\ q_call.k = 1
    /\ Len(q_ret) = 1
    /\ \E e \in OffDiagonal(q_matrix, q_call.id) : e[2] < q_ret[1][2]

\* C13: when two neighbours in a row have equal weight, knn returns the one
\* with the smaller column index (the lexicographically smaller id) first,
\* and when only one of them fits within k it is the one with the smaller
\* column index that is returned.
C13_TiesAscendingColumn ==
    KnownKnn =>
        /\ \A p \in 1..(Len(q_ret) - 1) :
               q_ret[p][2] = q_ret[p + 1][2] =>
                   IdToIdx(q_matrix.col_ids, q_ret[p][1])
                       < IdToIdx(q_matrix.col_ids, q_ret[p + 1][1])
        /\ \A e \in OffDiagonal(q_matrix, q_call.id) \ Range(q_ret) :
               \A p \in 1..Len(q_ret) :
                   e[2] = q_ret[p][2] =>
                       IdToIdx(q_matrix.col_ids, q_ret[p][1])
                           < IdToIdx(q_matrix.col_ids, e[1])

\* C17: a query with an id that is not present yields an empty result: knn
\* and neighbors_above_threshold return an empty list for an id that is not
\* in the matrix, and shortest_paths returns no paths (Option::None) for a
\* source id that is not in the graph.
C17_UnknownIdEmptyResult ==
    /\ (q_call.op \in {"knn", "neighbors_above_threshold"}
            /\ q_call.id \notin Range(q_matrix.row_ids)) => q_ret = <<>>
    /\ (q_call.op = "shortest_paths" /\ q_call.id \notin Range(q_graph.nodes))
           => q_ret = NoPaths

\* knn asked for neighbours of an id that the matrix does not hold, while
\* the first row of the matrix has a neighbour to give
C17_Witness ==
    /\ q_call.op = "knn"
    /\ q_call.id = UnknownId
    /\ q_call.k >= 1
    /\ Len(q_matrix.row_ids) >= 2
    /\ OffDiagonal(q_matrix, q_matrix.row_ids[1]) # {}

-----------------------------------------------------------------------------
(* Claims about graph construction, stats and PageRank *)

\* The sum of a sequence of fractions
RECURSIVE RSum(_)
RSum(s) == IF s = <<>> THEN Zero ELSE RAdd(Head(s), RSum(Tail(s)))

\* The positions of the triples of es that weigh at least t
KeptPositions(es, t) == {k \in 1..Len(es) : es[k][3] >= t}

\* The ids at either end of such a triple
KeptIds(es, t) ==
    {es[k][1] : k \in KeptPositions(es, t)} \cup {es[k][2] : k \in KeptPositions(es, t)}

\* C14: for every graph built by from_edges that has at least one edge,
\* every damping value in [0, 1] and every iteration count, the ranks of
\* compute_pagerank sum to 1: the uniform start vector does, every turn of
\* the loop keeps the sum, and so the returned map does.
C14_RanksSumToOne ==
    /\ (rpc = "loop" /\ Len(r_graph.edges) >= 1) => RSum(r_ranks) = One
    /\ (rpc = "done" /\ Len(r_graph.edges) >= 1) =>
           /\ DOMAIN r_ret = Range(r_graph.nodes)
           /\ RSum([k \in 1..Len(r_graph.nodes) |-> r_ret[r_graph.nodes[k]]]) = One

\* compute_pagerank returned after two turns at damping 0.5 on a graph of
\* two edges, with ranks that differ between nodes
C14_Witness ==
    /\ rpc = "done"
    /\ r_turn >= 2
    /\ r_damping = Frac(1, 2)
    /\ Len(r_graph.edges) = 2
    /\ \E x, y \in DOMAIN r_ret : r_ret[x] # r_ret[y]

\* C18: after CognateGraph::from_edges(edges, t) the node labels are exactly
\* the distinct ids at an end of some input edge with weight >= t, no label
\* is carried by two nodes, and the number of stored edges is the number of
\* input edges with weight >= t (repeated pairs and self-edges stored once
\* per input edge); stats() reports these two counts as num_nodes and
\* num_edges.
C18_NodesAndEdgesOfFromEdges ==
    /\ rpc \in {"built", "stats", "loop", "done"} =>
           /\ Range(r_graph.nodes) = KeptIds(r_edges, r_threshold)
           /\ Cardinality(Range(r_graph.nodes)) = Len(r_graph.nodes)
           /\ Len(r_graph.edges) = Cardinality(KeptPositions(r_edges, r_threshold))
    /\ rpc = "stats" =>
           /\ r_stats.num_nodes = Cardinality(KeptIds(r_edges, r_threshold))
           /\ r_stats.num_edges = Cardinality(KeptPositions(r_edges, r_threshold))

\* stats() ran on a graph built from a repeated pair: two nodes, two edges
C18_Witness ==
    /\ rpc = "stats"
    /\ Len(r_edges) = 2
    /\ r_edges[1] = r_edges[2]
    /\ r_edges[1][1] # r_edges[1][2]
    /\ r_stats.num_nodes = 2
    /\ r_stats.num_edges = 2

-----------------------------------------------------------------------------
(* Claims about community detection *)

\* C15: during detect_communities every committed node move strictly
\* increases the modularity Q of the current partition: the Q values of the
\* start partition and of the partitions after the successive committed
\* moves, within a pass and across passes, are strictly increasing.
C15_ModularityStrictlyIncreases ==
    \A p \in 1..(Len(c_trace) - 1) : RLess(c_trace[p], c_trace[p + 1])

\* detect_communities is in its second pass with three moves committed, all
\* three nodes in one community
C15_Witness ==
    /\ cpc = "for"
    /\ c_iteration = 2
    /\ c_node = 1
    /\ Len(c_trace) = 4
    /\ Len(c_communities[3]) = 3

-----------------------------------------------------------------------------
(* Claims about the dtw_align backtrace *)

\* C19: in the dtw_align backtrace at a cell (i, j) with i, j >= 1, the
\* diagonal step is taken whenever diag <= up and diag <= left; otherwise,
\* when up and left are equal, the up step (a Delete, consuming a segment of
\* A) is taken rather than the left step (an Insert).
C19_BacktraceTieBreak ==
    [][(apc = "backtrack" /\ cur_i >= 1 /\ cur_j >= 1
            /\ Len(operations') = Len(operations) + 1) =>
        LET diag == cost[<<cur_i - 1, cur_j - 1>>]
            up == cost[<<cur_i - 1, cur_j>>]
            left == cost[<<cur_i, cur_j - 1>>]
        IN  /\ (diag <= up /\ diag <= left) =>
                   /\ cur_i' = cur_i - 1
                   /\ cur_j' = cur_j - 1
                   /\ operations'[Len(operations')] \in {"Match", "Substitute"}
            /\ (~(diag <= up /\ diag <= left) /\ up = left) =>
                   /\ cur_i' = cur_i - 1
                   /\ cur_j' = cur_j
                   /\ operations'[Len(operations')] = "Delete"]_vars

-----------------------------------------------------------------------------
(* Claims about batch_phonetic_distance *)

\* C16: batch_phonetic_distance(pairs) returns a list as long as pairs whose
\* i-th element is phonetic_distance(pairs[i].0, pairs[i].1), in whatever
\* order the parallel tasks finished.
C16_BatchKeepsOrder ==
    bpc = "done" =>
        /\ Len(b_ret) = Len(b_pairs)
        /\ \A k \in 1..Len(b_pairs) :
               b_ret[k] = PhoneticDistance(b_pairs[k][1], b_pairs[k][2])

\* The call returned after the task of the second pair finished before the
\* task of the first, the two pairs differing in their distance
C16_Witness ==
    /\ bpc = "done"
    /\ Len(b_pairs) >= 2
    /\ b_finished[1] = 2
    /\ b_ret[1] # b_ret[2]

-----------------------------------------------------------------------------
(* Claims about extract_sound_correspondences *)

\* The position at which the pair c first occurs among the rules
FirstOccurrence(rules, c) ==
    CHOOSE k \in 1..Len(rules) :
        rules[k] = c /\ \A o \in 1..(k - 1) : rules[o] # c

\* C20: extract_sound_correspondences returns one (a, b, count) entry per
\* distinct substituted pair, with count the number of Substitute positions
\* over all alignments that carry the pair, ordered by descending count, and
\* entries of equal count appear in the order in which their pair first
\* occurs in the input alignments.
C20_CountsDescendingFirstOccurrence ==
    xpc = "done" =>
        LET rules == AllCorrespondences(x_alignments)
        IN  /\ Len(x_ret) = Cardinality(Range(rules))
            /\ {<<e[1], e[2]>> : e \in Range(x_ret)} = Range(rules)
            /\ \A k \in 1..Len(x_ret) :
                   x_ret[k][3] =
                       Cardinality({p \in 1..Len(rules) :
                                       rules[p] = <<x_ret[k][1], x_ret[k][2]>>})
            /\ \A k \in 1..(Len(x_ret) - 1) : x_ret[k][3] >= x_ret[k + 1][3]
            /\ \A k, m \in 1..Len(x_ret) :
                   (k < m /\ x_ret[k][3] = x_ret[m][3]) =>
                       FirstOccurrence(rules, <<x_ret[k][1], x_ret[k][2]>>)
                           < FirstOccurrence(rules, <<x_ret[m][1], x_ret[m][2]>>)

-----------------------------------------------------------------------------
(* Claims C21, C22, C26: the list returned by find_cognate_sets *)

\* The node index of a label of the graph
IndexOf(g, id) == (CHOOSE k \in 1..Len(g.nodes) : g.nodes[k] = id) - 1

\* The labels of the nodes of the component holding `members`, in the order
\* in which mark_component visited them: the search starts at the member of
\* least node index, and the nodes of other components are never reached
DfsVisitOrder(g, members) ==
    LET start == CHOOSE n \in {IndexOf(g, id) : id \in Range(members)} :
                     \A id \in Range(members) : n <= IndexOf(g, id)
        visited == MarkOrder(g, <<start>>, [k \in 1..Len(g.nodes) |-> 0], <<>>)
    IN  [k \in 1..Len(visited) |-> g.nodes[visited[k] + 1]]

\* C21: in every cognate set returned by find_cognate_sets the members are
\* listed in the order in which the depth-first search visited them
C21_MembersInDfsOrder ==
    gpc \in {"sets", "done"} =>
        \A k \in 1..Len(sets) :
            sets[k].members = DfsVisitOrder(graph, sets[k].members)

\* C22: the ids of the returned cognate sets are exactly 0 .. k-1 for k sets,
\* and the size field of each set is the length of its members list
C22_DenseZeroBasedIds ==
    gpc \in {"sets", "done"} =>
        /\ {sets[k].id : k \in 1..Len(sets)} = 0..(Len(sets) - 1)
        /\ \A k \in 1..Len(sets) : sets[k].size = Len(sets[k].members)

\* C26: the lists returned by find_cognate_sets and by threshold_clustering
\* are the same in every execution on the same input: whatever order the
\* component maps are iterated in, the call returns the list that was returned
C26_SameOutputForEveryMapOrder ==
    /\ gpc \in {"sets", "done"} =>
           \A order \in Orders(DOMAIN GroupByComponent(graph)) :
               FindCognateSets(graph, order) = sets
    /\ gpc = "done" =>
           \A order \in Orders(ClusterRoots(edges, threshold)) :
               ThresholdClusteringWithIds(edges, threshold, order) = clusters

-----------------------------------------------------------------------------
(* Claims C23, C28: the communities of detect_communities *)

\* The number of communities that hold the node
Holders(node) ==
    Cardinality({k \in 1..Len(c_communities) : node \in Range(c_communities[k])})

\* The positions of the non-empty communities of the vector
NonEmptySlots == {k \in 1..Len(c_communities) : c_communities[k] # <<>>}

\* The p-th non-empty community of the vector, counted from 1
NthNonEmpty(p) ==
    CHOOSE k \in NonEmptySlots : Cardinality({o \in NonEmptySlots : o <= k}) = p

RECURSIVE ReachFrom(_, _)
ReachFrom(g, S) ==
    LET T == S \cup {e[2] : e \in {d \in Range(g.edges) : d[1] \in S}}
                 \cup {e[1] : e \in {d \in Range(g.edges) : d[2] \in S}}
    IN  IF T = S THEN S ELSE ReachFrom(g, T)

\* C28: at every point of detect_communities and in its result, any two nodes
\* of one community are joined by a path of the graph
C28_CommunityWithinComponent ==
    /\ cpc \in {"while", "for", "done"} =>
           \A k \in 1..Len(c_communities) :
               \A m \in Range(c_communities[k]) :
                   Range(c_communities[k]) \subseteq ReachFrom(c_graph, {m})
    /\ cpc = "done" =>
           \A p \in 1..Len(c_ret) :
               \A a \in Range(c_ret[p]) :
                   {IndexOf(c_graph, b) : b \in Range(c_ret[p])}
                       \subseteq ReachFrom(c_graph, {IndexOf(c_graph, a)})

\* detect_communities returned for a graph of two components after it moved
\* a node into the community of a neighbour
C28_Witness ==
    /\ cpc = "done"
    /\ Len(c_trace) >= 2
    /\ \E m \in NodeIndices(c_graph) : ReachFrom(c_graph, {m}) # NodeIndices(c_graph)
    /\ \E p \in 1..Len(c_ret) : Len(c_ret[p]) = 2

-----------------------------------------------------------------------------
(* Claim C24: union by rank *)

\* The number of parent links followed from x up to a root, counted from
\* `followed`; the walk stops after more than NItems links (a cycle)
RECURSIVE ChainLength(_, _)
ChainLength(x, followed) ==
    IF parent[x] = x \/ followed > NItems THEN followed
    ELSE ChainLength(parent[x], followed + 1)

\* The element that the parent links lead to from x, no link being rewritten
RECURSIVE RootOf(_, _)
RootOf(x, followed) ==
    IF parent[x] = x \/ followed > NItems THEN x
    ELSE RootOf(parent[x], followed + 1)

\* The elements of the tree rooted at r
TreeOf(r) == {x \in Items : RootOf(x, 0) = r}

RECURSIVE Pow2(_)
Pow2(k) == IF k = 0 THEN 1 ELSE 2 * Pow2(k - 1)

\* C24: after any sequence of union and find calls, the parent chains end in
\* a root after at most floor(log2 n) links, every non-root has a rank
\* strictly below its parent's, and the tree of a root r holds at least
\* 2^rank[r] elements; a union of two distinct roots of equal rank attaches
\* the root of y under the root of x and adds one to the rank of x's root,
\* leaving every other rank as it was
C24_UnionByRank ==
    /\ [](\A x \in Items : Pow2(ChainLength(x, 0)) <= NItems)
    /\ [](\A x \in Items : parent[x] # x => rank[x] < rank[parent[x]])
    /\ [](\A r \in Items : parent[r] = r => Cardinality(TreeOf(r)) >= Pow2(rank[r]))
    /\ [][\A x \in Items : \A y \in Items \ {x} :
            (/\ {x, y} \in unions'
             /\ RootOf(x, 0) # RootOf(y, 0)
             /\ rank[RootOf(x, 0)] = rank[RootOf(y, 0)]
             /\ UnionCall(x, y))
                => /\ parent'[RootOf(y, 0)] = RootOf(x, 0)
                   /\ parent'[RootOf(x, 0)] = RootOf(x, 0)
                   /\ rank' = [rank EXCEPT ![RootOf(x, 0)] = @ + 1]]_vars

\* A union of two roots of rank 1 has made a root of rank 2, over a tree of
\* at least four elements
C24_Witness ==
    /\ ret = <<>>
    /\ \E r \in Items : parent[r] = r /\ rank[r] = 2

-----------------------------------------------------------------------------
(* Claim C25: the rolling rows compute the edit distance *)

\* The cells <<i, j>> of the full (Len(a) + 1) x (Len(b) + 1) table, row by row
TableCells(a, b) ==
    [k \in 1..((Len(a) + 1) * (Len(b) + 1)) |->
        <<(k - 1) \div (Len(b) + 1), (k - 1) % (Len(b) + 1)>>]

\* The table d of the classical unit-cost edit distance, filled cell by cell:
\* d[i, 0] = i, d[0, j] = j, and d[i, j] the least of a deletion, an
\* insertion and a substitution (free when the segments are equal)
RECURSIVE EditTable(_, _, _, _)
EditTable(d, a, b, cells) ==
    IF cells = <<>> THEN d
    ELSE LET ci == Head(cells)[1]
             cj == Head(cells)[2]
             v == IF ci = 0 THEN cj
                  ELSE IF cj = 0 THEN ci
                  ELSE Min2(Min2(d[<<ci - 1, cj>>] + 1, d[<<ci, cj - 1>>] + 1),
                            d[<<ci - 1, cj - 1>>]
                                + (IF a[ci] = b[cj] THEN 0 ELSE 1))
         IN  EditTable((<<ci, cj>> :> v) @@ d, a, b, Tail(cells))

\* The classical edit distance of a and b: the last cell of the full table
EditDistance(a, b) == EditTable(<<>>, a, b, TableCells(a, b))[<<Len(a), Len(b)>>]

\* C25: what phonetic_distance returns is 1 - e / max_len for the classical
\* edit distance e of the two segment sequences (so levenshtein returned e),
\* and it lies between 0.0 and 1.0
C25_LevenshteinIsEditDistance ==
    \A args \in DOMAIN pd_ret :
        /\ Max2(Len(args[1]), Len(args[2])) > 0 =>
               pd_ret[args] = Frac(Max2(Len(args[1]), Len(args[2]))
                                       - EditDistance(args[1], args[2]),
                                   Max2(Len(args[1]), Len(args[2])))
        /\ 0 <= pd_ret[args].num
        /\ pd_ret[args].num <= pd_ret[args].den

\* phonetic_distance has returned a value above 0.0 for two different strings
\* of three and two segments: the rows were swapped three times
C25_Witness ==
    /\ Len(str_x) = 3
    /\ Len(str_y) = 2
    /\ <<str_x, str_y>> \in DOMAIN pd_ret
    /\ pd_ret[<<str_x, str_y>>] \notin {Zero, One}

-----------------------------------------------------------------------------
(* Claim C30: the two crates agree *)

\* C30: phonetic_distance of the standalone phonetic-rs crate returns what
\* phonetic_distance of langviz-rs returns on the same two strings, two empty
\* strings included
C30_CratesAgree ==
    (p_langviz # <<>> /\ p_standalone # <<>>) => p_standalone = p_langviz

-----------------------------------------------------------------------------
(* Claim C27: the alignment returned for non-empty inputs *)

\* The vector s without the positions whose operation is op
WithoutOp(s, ops, op) ==
    LET kept == SelectSeq([k \in 1..Len(s) |-> k], LAMBDA k : ops[k] # op)
    IN  [k \in 1..Len(kept) |-> s[kept[k]]]

\* C27: for non-empty A and B the three vectors of the alignment returned by
\* dtw_align have one length; an Insert position has "-" in sequence_a, a
\* Delete position has "-" in sequence_b, a Match position has equal
\* segments, a Substitute position has different segments; sequence_a
\* without its Insert positions is A and sequence_b without its Delete
\* positions is B (so the other segments are those of A and B, in order)
C27_AlignmentConsistent ==
    (apc = "done" /\ ipa_a # <<>> /\ ipa_b # <<>>) =>
        /\ Len(alignment.sequence_a) = Len(alignment.operations)
        /\ Len(alignment.sequence_b) = Len(alignment.operations)
        /\ \A k \in 1..Len(alignment.operations) :
               /\ alignment.operations[k] \in {"Match", "Substitute", "Insert", "Delete"}
               /\ alignment.operations[k] = "Insert" =>
                      alignment.sequence_a[k] = "-"
               /\ alignment.operations[k] = "Delete" =>
                      alignment.sequence_b[k] = "-"
               /\ alignment.operations[k] = "Match" =>
                      alignment.sequence_a[k] = alignment.sequence_b[k]
               /\ alignment.operations[k] = "Substitute" =>
                      alignment.sequence_a[k] # alignment.sequence_b[k]
        /\ WithoutOp(alignment.sequence_a, alignment.operations, "Insert") = ipa_a
        /\ WithoutOp(alignment.sequence_b, alignment.operations, "Delete") = ipa_b

\* dtw_align has returned an alignment of two different non-palindromic
\* strings that holds a Match, a Substitute and an Insert
C27_Witness ==
    /\ apc = "done"
    /\ ipa_a # Reverse(ipa_a)
    /\ ipa_b # Reverse(ipa_b)
    /\ {"Match", "Substitute", "Insert"} \subseteq Range(alignment.operations)

-----------------------------------------------------------------------------
(* Claim C29: the two readings of the correspondences of an alignment *)

\* C29: for every alignment dtw_align returns, PyAlignment::correspondences
\* returns the list of pairs that Alignment::extract_correspondences returns
C29_PyCorrespondencesAgree ==
    apc = "rules" => py_rules = a_rules

=============================================================================
